---- MODULE Spec2Model ----
(***************************************************************************)
(* AETIM correlation core: candidate extraction, asset matching, risk      *)
(* scoring, the correlation pass over T_Raw_Intel / T_Validated_Threats    *)
(* and the critical-tier notification that follows it.                     *)
(*                                                                         *)
(* Text is a sequence of one-character strings, so that Python's `in`,     *)
(* lower(), strip() and split() are computed rather than assumed.         *)
(* Scores are integers in hundredths (9.0 is 900).                         *)
(***************************************************************************)
EXTENDS Integers, Sequences, FiniteSets, TLC

\* ------------------------------------------------------------------ text
UpperChars == <<"A","B","C","D","E","F","G","H","I","J","K","L","M","N","O","P","Q","R","S","T","U","V","W","X","Y","Z">>
LowerChars == <<"a","b","c","d","e","f","g","h","i","j","k","l","m","n","o","p","q","r","s","t","u","v","w","x","y","z">>

\* str.lower() on one character
LowerChar(c) ==
    IF \E k \in 1..26 : UpperChars[k] = c
    THEN LowerChars[CHOOSE k \in 1..26 : UpperChars[k] = c]
    ELSE c

\* str.upper() on one character
UpperChar(c) ==
    IF \E k \in 1..26 : LowerChars[k] = c
    THEN UpperChars[CHOOSE k \in 1..26 : LowerChars[k] = c]
    ELSE c

\* str.lower()
Lower(s) == [k \in 1..Len(s) |-> LowerChar(s[k])]

\* str.upper()
Upper(s) == [k \in 1..Len(s) |-> UpperChar(s[k])]

\* str.strip(): drop leading and trailing blanks
Strip(s) ==
    LET nonblank == {k \in 1..Len(s) : s[k] # " "}
    IN  IF nonblank = {} THEN <<>>
        ELSE LET lo == CHOOSE k \in nonblank : \A j \in nonblank : k <= j
                 hi == CHOOSE k \in nonblank : \A j \in nonblank : k >= j
             IN  SubSeq(s, lo, hi)

\* Python `a in b` on two strings (the empty string is in every string)
IsSubstr(a, b) ==
    /\ Len(a) <= Len(b)
    /\ \E k \in 0..(Len(b) - Len(a)) : SubSeq(b, k + 1, k + Len(a)) = a

\* str.split(':'): the parts between the colons, in order
RECURSIVE SplitColon(_)
SplitColon(s) ==
    IF \A k \in 1..Len(s) : s[k] # ":"
    THEN <<s>>
    ELSE LET p == CHOOSE k \in 1..Len(s) :
                      /\ s[k] = ":"
                      /\ \A j \in 1..(k - 1) : s[j] # ":"
         IN  <<SubSeq(s, 1, p - 1)>> \o SplitColon(SubSeq(s, p + 1, Len(s)))

\* a column or JSON field holding text, or NULL / a missing value
Txt(s) == [null |-> FALSE, s |-> s]
NullTxt == [null |-> TRUE, s |-> <<>>]

\* str(x) of a text column: str(None) is the four characters None
StrOf(x) == IF x.null THEN <<"N","o","n","e">> ELSE x.s

\* ---------------------------------------------------------- JSON values
JStr(s) == [t |-> "str", s |-> s, n |-> 0]
JNum(n) == [t |-> "num", s |-> <<>>, n |-> n]
JNull == [t |-> "null", s |-> <<>>, n |-> 0]

\* Python truthiness of a decoded JSON value
Truthy(v) ==
    CASE v.t = "str" -> v.s # <<>>
      [] v.t = "num" -> v.n # 0
      [] OTHER -> FALSE

\* ------------------------------------------------------- keyword tables
kw_windows_server == <<"w","i","n","d","o","w","s"," ","s","e","r","v","e","r">>
kw_sql_server == <<"s","q","l"," ","s","e","r","v","e","r">>
kw_vmware == <<"v","m","w","a","r","e">>
kw_esxi == <<"e","s","x","i">>
kw_microsoft == <<"m","i","c","r","o","s","o","f","t">>
kw_delphi == <<"d","e","l","p","h","i">>
kw_eep == <<"e","e","p">>
kw_ws2008 == <<"w","i","n","d","o","w","s"," ","s","e","r","v","e","r"," ","2","0","0","8">>
kw_ws2016 == <<"w","i","n","d","o","w","s"," ","s","e","r","v","e","r"," ","2","0","1","6">>
kw_ws2022 == <<"w","i","n","d","o","w","s"," ","s","e","r","v","e","r"," ","2","0","2","2">>
kw_mssql == <<"m","s","s","q","l">>
kw_vmware_esxi == <<"v","m","w","a","r","e"," ","e","s","x","i">>

\* keywords scanned in an NVD description
DescriptionKeywords ==
    {kw_windows_server, kw_sql_server, kw_vmware, kw_esxi, kw_microsoft, kw_delphi, kw_eep}

\* keywords scanned in an RSS summary
SummaryKeywords ==
    {kw_windows_server, kw_sql_server, kw_vmware, kw_esxi, kw_microsoft}

\* title table: category, variants
TitleKeywords ==
    { [category |-> kw_windows_server, variants |-> {kw_ws2008, kw_ws2016, kw_ws2022}],
      [category |-> kw_sql_server,     variants |-> {kw_sql_server, kw_mssql}],
      [category |-> kw_vmware,         variants |-> {kw_vmware_esxi, kw_vmware, kw_esxi}],
      [category |-> kw_microsoft,      variants |-> {kw_microsoft}] }

\* ------------------------------------------------- candidate extractor
KevKeys == {"vulnerabilityName", "product", "vendorProject"}

k_configurations == <<"c","o","n","f","i","g","u","r","a","t","i","o","n","s">>
k_descriptions == <<"d","e","s","c","r","i","p","t","i","o","n","s">>

\* 'configurations' in cve_data and 'descriptions' in cve_data when cve_data
\* is no object: a number and null are not iterable; in a string the test
\* is one of substrings, and a string that holds the key is then indexed
\* with it
CveRaises(cve) ==
    \/ cve.t \in {"num", "null"}
    \/ cve.t = "str" /\ (IsSubstr(k_configurations, cve.s) \/ IsSubstr(k_descriptions, cve.s))

\* candidates of one cpeMatch criteria string: vendor is part 3, product
\* part 4 (counted from 0) of the colon-separated identifier
CpeNames(c) ==
    LET cpe_parts == SplitColon(c.s)
    IN  IF Len(cpe_parts) >= 4
        THEN LET vendor == cpe_parts[4]
                 product == cpe_parts[5]
             IN  (IF product # <<>> /\ product # <<"*">>
                  THEN {vendor \o <<" ">> \o product} ELSE {})
                 \cup
                 (IF vendor # <<>> /\ vendor # <<"*">> THEN {vendor} ELSE {})
        ELSE {}

\* criteria that is not a string has no split(); with exactly four parts
\* cpe_parts[4] is out of range
CpeRaises(c) == c.t # "str" \/ Len(SplitColon(c.s)) = 4

\* the extractor: raised is TRUE when an exception leaves the function,
\* names is the returned candidate set otherwise
extract_product_name_from_intel(intel_data) ==
    LET raw == intel_data.raw_data
        isObj == raw.kind = "object"
        has(k) == isObj /\ k \in DOMAIN raw.obj
        \* CISA KEV keys: the value is appended whatever its type
        kev == {raw.obj[k] : k \in {j \in KevKeys : has(j)}}
        \* NVD shape
        cve == raw.obj["cve"]
        cveIsObj == has("cve") /\ cve.t = "obj"
        crit == IF cveIsObj THEN {cve.criteria[k] : k \in 1..Len(cve.criteria)} ELSE {}
        descs == IF cveIsObj
                 THEN {cve.descriptions[k] : k \in 1..Len(cve.descriptions)} ELSE {}
        enDescs == {d \in descs : ~d.lang.null /\ d.lang.s = <<"e","n">>}
        fromCpe == UNION {CpeNames(c) : c \in {x \in crit : ~CpeRaises(x)}}
        fromDesc == {kw \in DescriptionKeywords :
                        \E d \in enDescs : d.value.t = "str" /\ IsSubstr(kw, Lower(d.value.s))}
        \* RSS shape
        fromSummary == IF has("summary") /\ raw.obj["summary"].t = "str"
                       THEN {kw \in SummaryKeywords : IsSubstr(kw, Lower(raw.obj["summary"].s))}
                       ELSE {}
        \* exceptions other than JSONDecodeError leave the function
        raisedInJson ==
            \/ raw.kind = "scalar"
            \/ has("cve") /\ cve.t # "obj" /\ CveRaises(cve)
            \/ \E c \in crit : CpeRaises(c)
            \/ \E d \in enDescs : d.value.t # "str"
            \/ has("summary") /\ raw.obj["summary"].t # "str"
        \* title scan
        hasTitle == ~intel_data.title.null /\ intel_data.title.s # <<>>
        title == Lower(intel_data.title.s)
        hit == {e \in TitleKeywords : \E v \in e.variants : IsSubstr(v, title)}
        fromTitle == IF hasTitle
                     THEN UNION {{v \in e.variants : IsSubstr(v, title)} \cup {e.category} : e \in hit}
                     ELSE {}
        \* final comprehension: p.lower().strip() for every truthy p
        raisedInFinal == \E v \in kev : Truthy(v) /\ v.t # "str"
        strings == {v.s : v \in {x \in kev : Truthy(x) /\ x.t = "str"}}
                   \cup fromCpe \cup fromDesc \cup fromSummary \cup fromTitle
    IN  IF raw.kind \in {"none", "invalid"}
        THEN [raised |-> FALSE,
              names |-> {Strip(Lower(p)) : p \in {q \in fromTitle : q # <<>>}}]
        ELSE IF raisedInJson \/ raisedInFinal
        THEN [raised |-> TRUE, names |-> {}]
        ELSE [raised |-> FALSE,
              names |-> {Strip(Lower(p)) : p \in {q \in strings : q # <<>>}}]

\* ------------------------------------------------------- asset matcher
RECURSIVE AscSeq(_)
\* the elements of a set of integers in ascending order
AscSeq(S) ==
    IF S = {} THEN <<>>
    ELSE LET m == CHOOSE x \in S : \A y \in S : x <= y
         IN  <<m>> \o AscSeq(S \ {m})

\* variant: only a candidate inside a text of the asset counts
AssetMatches_oneWay(asset, product_names) ==
    LET os_version == Lower(StrOf(asset.os_version))
        applications == Lower(StrOf(asset.applications))
    IN  \E product_name \in product_names :
            \/ IsSubstr(product_name, os_version)
            \/ IsSubstr(product_name, applications)

\* an asset matches when a candidate is in one of its two texts or one of
\* its two texts is in a candidate
AssetMatches(asset, product_names) ==
    LET os_version == Lower(StrOf(asset.os_version))
        applications == Lower(StrOf(asset.applications))
    IN  \E product_name \in product_names :
            \/ IsSubstr(product_name, os_version)
            \/ IsSubstr(product_name, applications)
            \/ IsSubstr(os_version, product_name)
            \/ IsSubstr(applications, product_name)

\* variant: the matcher without the return on an empty candidate list
match_cve_with_assets_noEarlyReturn(intel_data, df_assets) ==
    LET ex == extract_product_name_from_intel(intel_data)
        ids == {a.id : a \in {x \in df_assets : AssetMatches(x, ex.names)}}
    IN  IF ex.raised THEN [raised |-> TRUE, ids |-> {}, list |-> <<>>, compared |-> {}]
        ELSE [raised |-> FALSE, ids |-> ids, list |-> AscSeq(ids),
              compared |-> {a.id : a \in df_assets}]

\* the matcher: ids is the set of matched asset ids, list the returned
\* list(set(matched_asset_ids)), compared the rows the loop went through
match_cve_with_assets(intel_data, df_assets) ==
    LET ex == extract_product_name_from_intel(intel_data)
        ids == {a.id : a \in {x \in df_assets : AssetMatches(x, ex.names)}}
    IN  IF ex.raised THEN [raised |-> TRUE, ids |-> {}, list |-> <<>>, compared |-> {}]
        ELSE IF ex.names = {} THEN [raised |-> FALSE, ids |-> {}, list |-> <<>>, compared |-> {}]
        ELSE [raised |-> FALSE, ids |-> ids, list |-> AscSeq(ids),
              compared |-> {a.id : a \in df_assets}]

\* --------------------------------------------------------- risk scorer
\* running value in millionths, so that the five products are exact
Micro == 1000000

CvssNone == [k |-> "none", tenths |-> 0]
\* the empty string and a text float() cannot parse
CvssEmpty == [k |-> "empty", tenths |-> 0]
CvssText == [k |-> "text", tenths |-> 0]
CvssNaN == [k |-> "nan", tenths |-> 0]
Cvss(t) == [k |-> "num", tenths |-> t]

HighWords == {<<"H","I","G","H">>, <<"C","R","I","T","I","C","A","L">>}
s_2008 == <<"2","0","0","8">>

\* round(x, 2) of a value in millionths, in hundredths; a tie goes to the
\* even neighbour (no input of this model produces a tie)
Round2(v) ==
    LET q == v \div 10000
        r == v % 10000
    IN  IF r > 5000 \/ (r = 5000 /\ q % 2 = 1) THEN q + 1 ELSE q

\* variant: the scorer without min(10.0, ...)
calculate_risk_score_noClamp(intel_data, asset_data) ==
    LET cvss_score == intel_data.cvss_score
        isNaN == cvss_score.k = "nan"
        base0 == IF cvss_score.k \in {"none", "empty", "text"} THEN 7 * Micro
                 ELSE IF cvss_score.tenths = 0 \/ cvss_score.tenths < 0 \/ cvss_score.tenths > 100
                      THEN 7 * Micro
                      ELSE cvss_score.tenths * (Micro \div 10)
        public == Upper(asset_data.is_public.s) = <<"Y">>
        critical == Upper(asset_data.business_criticality.s) \in HighWords
        kev == intel_data.source = "CISA_KEV"
        legacy == \/ IsSubstr(s_2008, Lower(StrOf(asset_data.os_version)))
                  \/ IsSubstr(s_2008, Lower(StrOf(asset_data.applications)))
        sensitive == Upper(asset_data.data_sensitivity.s) \in HighWords
        b1 == IF public THEN (base0 * 15) \div 10 ELSE base0
        b2 == IF critical THEN (b1 * 13) \div 10 ELSE b1
        b3 == IF kev THEN (b2 * 20) \div 10 ELSE b2
        b4 == IF legacy THEN (b3 * 12) \div 10 ELSE b3
        b5 == IF sensitive THEN (b4 * 11) \div 10 ELSE b4
        final_score == b5
    IN  IF \/ asset_data.is_public.null
           \/ asset_data.business_criticality.null
           \/ asset_data.data_sensitivity.null
        THEN [raised |-> TRUE, score |-> 0]
        \* a NaN base stays NaN through the products and min(10.0, nan) is 10.0
        ELSE IF isNaN THEN [raised |-> FALSE, score |-> 1000]
        ELSE [raised |-> FALSE, score |-> Round2(final_score)]

\* variant: every factor multiplies the first base, not the running value
calculate_risk_score_firstBase(intel_data, asset_data) ==
    LET cvss_score == intel_data.cvss_score
        isNaN == cvss_score.k = "nan"
        base0 == IF cvss_score.k \in {"none", "empty", "text"} THEN 7 * Micro
                 ELSE IF cvss_score.tenths = 0 \/ cvss_score.tenths < 0 \/ cvss_score.tenths > 100
                      THEN 7 * Micro
                      ELSE cvss_score.tenths * (Micro \div 10)
        public == Upper(asset_data.is_public.s) = <<"Y">>
        critical == Upper(asset_data.business_criticality.s) \in HighWords
        kev == intel_data.source = "CISA_KEV"
        legacy == \/ IsSubstr(s_2008, Lower(StrOf(asset_data.os_version)))
                  \/ IsSubstr(s_2008, Lower(StrOf(asset_data.applications)))
        sensitive == Upper(asset_data.data_sensitivity.s) \in HighWords
        b1 == IF public THEN base0 + (base0 * 5) \div 10 ELSE base0
        b2 == IF critical THEN b1 + (base0 * 3) \div 10 ELSE b1
        b3 == IF kev THEN b2 + base0 ELSE b2
        b4 == IF legacy THEN b3 + (base0 * 2) \div 10 ELSE b3
        b5 == IF sensitive THEN b4 + base0 \div 10 ELSE b4
        final_score == IF b5 > 10 * Micro THEN 10 * Micro ELSE b5
    IN  IF \/ asset_data.is_public.null
           \/ asset_data.business_criticality.null
           \/ asset_data.data_sensitivity.null
        THEN [raised |-> TRUE, score |-> 0]
        \* a NaN base stays NaN through the products and min(10.0, nan) is 10.0
        ELSE IF isNaN THEN [raised |-> FALSE, score |-> 1000]
        ELSE [raised |-> FALSE, score |-> Round2(final_score)]

\* the scorer: raised when a NULL asset field meets .upper(); score in
\* hundredths otherwise
calculate_risk_score(intel_data, asset_data) ==
    LET cvss_score == intel_data.cvss_score
        isNaN == cvss_score.k = "nan"
        base0 == IF cvss_score.k \in {"none", "empty", "text"} THEN 7 * Micro
                 ELSE IF cvss_score.tenths = 0 \/ cvss_score.tenths < 0 \/ cvss_score.tenths > 100
                      THEN 7 * Micro
                      ELSE cvss_score.tenths * (Micro \div 10)
        public == Upper(asset_data.is_public.s) = <<"Y">>
        critical == Upper(asset_data.business_criticality.s) \in HighWords
        kev == intel_data.source = "CISA_KEV"
        legacy == \/ IsSubstr(s_2008, Lower(StrOf(asset_data.os_version)))
                  \/ IsSubstr(s_2008, Lower(StrOf(asset_data.applications)))
        sensitive == Upper(asset_data.data_sensitivity.s) \in HighWords
        b1 == IF public THEN (base0 * 15) \div 10 ELSE base0
        b2 == IF critical THEN (b1 * 13) \div 10 ELSE b1
        b3 == IF kev THEN (b2 * 20) \div 10 ELSE b2
        b4 == IF legacy THEN (b3 * 12) \div 10 ELSE b3
        b5 == IF sensitive THEN (b4 * 11) \div 10 ELSE b4
        final_score == IF b5 > 10 * Micro THEN 10 * Micro ELSE b5
    IN  IF \/ asset_data.is_public.null
           \/ asset_data.business_criticality.null
           \/ asset_data.data_sensitivity.null
        THEN [raised |-> TRUE, score |-> 0]
        \* a NaN base stays NaN through the products and min(10.0, nan) is 10.0
        ELSE IF isNaN THEN [raised |-> FALSE, score |-> 1000]
        ELSE [raised |-> FALSE, score |-> Round2(final_score)]

\* ------------------------------------------------------------ the data
\* bounds of the model
MaxIntel == 2
MaxTime == 2

\* one clock unit is one hour: datetime('now', '-1 hour')
Hour == 1

\* the score the orchestrator compares with before it calls the notifier
HardCritical == 900
\* notification.thresholds.critical when the key is missing
DefaultCritical == 900

LoggedNoMatch == "logged (no match)"

t_CVE == <<"C","V","E">>
t_Advisory == <<"A","d","v","i","s","o","r","y">>

\* asset inventory rows (T_Assets)
Asset1 ==
    [id |-> 1,
     os_version |-> Txt(<<"V","M","w","a","r","e"," ","E","S","X","i"," ","7",".","0">>),
     applications |-> Txt(<<"n","g","i","n","x">>),
     is_public |-> Txt(<<"Y">>),
     business_criticality |-> Txt(<<"H","i","g","h">>),
     data_sensitivity |-> Txt(<<"L","o","w">>)]
Asset2 ==
    [id |-> 2,
     os_version |-> Txt(<<"W","i","n","d","o","w","s"," ","S","e","r","v","e","r"," ","2","0","0","8">>),
     applications |-> Txt(<<"M","S","S","Q","L"," ","2","0","1","9">>),
     is_public |-> Txt(<<"N">>),
     business_criticality |-> Txt(<<"M","e","d","i","u","m">>),
     data_sensitivity |-> Txt(<<"H","i","g","h">>)]
\* a row whose is_public cell is NULL: scoring it raises
Asset3 ==
    [id |-> 3,
     os_version |-> Txt(<<"E","S","X","i"," ","6",".","5">>),
     applications |-> Txt(<<"v","C","e","n","t","e","r">>),
     is_public |-> NullTxt,
     business_criticality |-> Txt(<<"H","i","g","h">>),
     data_sensitivity |-> Txt(<<"L","o","w">>)]

AssetInventories == { {}, {Asset1, Asset2}, {Asset2, Asset3} }

NoPayload == [kind |-> "none", obj |-> <<>>]
InvalidJson == [kind |-> "invalid", obj |-> <<>>]
\* a payload that decodes to a number or to null
ScalarJson == [kind |-> "scalar", obj |-> <<>>]
ObjectJson(o) == [kind |-> "object", obj |-> o]

\* what the feeds can deliver (rows the collectors insert with status 'new')
FeedItems ==
    << [source |-> "CISA_KEV", type |-> t_CVE, cve_id |-> "CVE-1",
        title |-> Txt(<<"E","S","X","i"," ","R","C","E">>),
        cvss_score |-> CvssNone,
        raw_data |-> ObjectJson(
            ("vulnerabilityName" :> JStr(<<"E","S","X","i"," ","R","C","E">>))
            @@ ("product" :> JStr(<<"E","S","X","i">>))
            @@ ("vendorProject" :> JStr(<<"V","M","w","a","r","e">>)))],
       [source |-> "NVD", type |-> t_CVE, cve_id |-> "CVE-2",
        title |-> Txt(<<"N","V","D",":"," ","m","s","s","q","l">>),
        cvss_score |-> Cvss(65),
        raw_data |-> ObjectJson(<<>>)],
       [source |-> "MSRC", type |-> t_Advisory, cve_id |-> "",
        title |-> Txt(<<"M","S","R","C"," ","e","s","x","i"," ","n","o","t","e">>),
        cvss_score |-> CvssNone,
        raw_data |-> ObjectJson("summary" :> JStr(<<"V","M","w","a","r","e"," ","E","S","X","i">>))],
       [source |-> "NVD", type |-> t_CVE, cve_id |-> "CVE-4",
        title |-> Txt(<<"N","V","D",":"," ","b","a","d">>),
        cvss_score |-> Cvss(98),
        raw_data |-> ScalarJson],
       [source |-> "CISA_KEV", type |-> t_CVE, cve_id |-> "CVE-5",
        title |-> Txt(<<"W","i","n","d","o","w","s"," ","S","e","r","v","e","r"," ","2","0","0","8">>),
        cvss_score |-> CvssNone,
        raw_data |-> InvalidJson] >>

\* a configuration without the notification.thresholds.critical key
Missing == -1

Configs == [enabled : BOOLEAN, critical : {Missing, 800}]

\* ------------------------------------------------ notification config
\* thresholds.high when the key is missing
DefaultHigh == 700

\* the three recipient groups of notification.recipients
Groups == {"ciso", "it", "soc"}

\* config['notification'] besides enabled and thresholds.critical, which
\* the variable config carries. An address "" is a group that has no
\* address (the key is missing or empty: recipients_map.get(g) is falsy)
DefaultNotification ==
    [email_enabled |-> TRUE, channels_email |-> TRUE, smtp_server |-> "smtp.corp",
     from_address |-> "aetim@corp", to_address |-> "", it_email |-> "",
     high |-> Missing,
     recipients |-> [g \in Groups |->
                        IF g = "ciso" THEN "ciso@corp"
                        ELSE IF g = "it" THEN "it@corp" ELSE ""],
     types |-> [critical |-> [enabled |-> TRUE, recipients |-> <<"ciso", "it">>],
                high_daily |-> [enabled |-> TRUE, recipients |-> <<"ciso", "it">>],
                weekly_report |-> [enabled |-> TRUE, recipients |-> <<"ciso", "it">>]]]

\* the configurations the dispatchers are run with
NotificationConfigs ==
    { DefaultNotification,
      \* one mailbox shared by the two groups
      [DefaultNotification EXCEPT !.recipients["it"] = "ciso@corp"],
      \* a listed group that has no address
      [DefaultNotification EXCEPT
          !.types.critical.recipients = <<"soc", "ciso", "it">>,
          !.types.high_daily.recipients = <<"soc", "ciso", "it">>,
          !.types.weekly_report.recipients = <<"soc", "ciso", "it">>],
      \* email switched off
      [DefaultNotification EXCEPT !.email_enabled = FALSE],
      \* the old layout: no group listed, one to_address
      [DefaultNotification EXCEPT
          !.types.critical.recipients = <<>>,
          !.types.high_daily.recipients = <<>>,
          !.types.weekly_report.recipients = <<>>,
          !.to_address = "sec@corp", !.high = 800] }

\* no dispatch has run
NoDispatch == [op |-> "none", attempts |-> <<>>, rejects |-> {}]

\* TAIPEI_TZ as an offset from UTC, in hours
TaipeiOffset == 8

\* the offsets of the system's local zone that datetime.now() is run with
LocalOffsets == {0, TaipeiOffset}

\* hours of a day, of the 24-hour window and of 86400 seconds
DayHours == 24

\* ----------------------------------------------------------- the state
VARIABLES
    T_Assets,            \* asset inventory (read-only here)
    T_Raw_Intel,         \* committed intel rows; the id is the index
    T_Validated_Threats, \* committed threat rows; the id is the index
    config,              \* notification.enabled, notification.thresholds.critical
    now,                 \* clock
    task_lock,           \* web_app.task_lock
    task_status,         \* web_app.task_status['correlation']['status']
    pc,                  \* position of the running pass
    df_new_intel,        \* ids selected by step 2
    validated_threats,   \* list built by step 3
    processed_intel_ids, \* list built by step 3
    tx,                  \* uncommitted writes of the open transaction
    hist,                \* observation of the running pass (not program state)
    notification,        \* config['notification'] as the dispatchers read it
    tz,                  \* offset of the system's local zone from UTC, in hours
    outbox,              \* observation of the last dispatch: the send_email calls
    job_log,             \* logs/weekly_jobs/*.jsonl: the appended lines, in order
    probe,               \* one call of a pure function: its arguments and its result
    web,                 \* the threads of the web process and its last response
    sched,               \* the pass of the scheduler process: its position and locals
    send,                \* the request of test_send_weekly: its position and its event
    cron                 \* config.yaml's weekly_report, the scheduler's weekly job, the pending SIGUSR2

vars == <<T_Assets, T_Raw_Intel, T_Validated_Threats, config, now, task_lock,
          task_status, pc, df_new_intel, validated_threats,
          processed_intel_ids, tx, hist, notification, tz, outbox, job_log,
          probe, web, sched, send, cron>>

\* the state the correlation pass neither reads nor writes
dispatch_vars == <<notification, tz, outbox, job_log>>

\* the state the pass of the web process neither reads nor writes
extra_vars == <<probe, web, sched, send, cron>>

\* no call was made
NoProbe == [fn |-> "none"]

NoTx == [threats |-> <<>>, status |-> <<>>]

\* the entries of web_app.task_status
Entries == {"collectors", "correlation", "report_generation", "notification"}

\* no thread was started and no request was answered
NoWeb == [threads |-> <<>>, response |-> "none",
          status |-> [e \in Entries |-> "idle"]]

\* the scheduler process runs no pass
NoSched == [pc |-> "idle", df_new_intel |-> {}, validated_threats |-> <<>>,
            processed_intel_ids |-> <<>>, tx |-> NoTx, outcome |-> "none",
            writeFailed |-> {}]

\* nothing is stored under weekly_report, the scheduler holds no weekly
\* job and no signal is pending
NoCron == [enabled |-> FALSE,
           schedule_struct |-> [t |-> "missing", s |-> <<>>, n |-> 0],
           job |-> FALSE, trigger |-> [day |-> <<>>, hour |-> 0, minute |-> 0],
           signal |-> FALSE, response |-> 0, posts |-> 0]

\* no request of test_send_weekly is under way
NoSend == [pc |-> "idle", ev |-> 0, latest_report |-> FALSE]

NoHist == [outcome |-> "none", startNew |-> {}, startThreats |-> <<>>,
           startIntel |-> <<>>, invoked |-> FALSE, notified |-> {},
           writeFailed |-> {}, fatalAt |-> "none"]

Init ==
    /\ T_Assets \in AssetInventories
    /\ T_Raw_Intel = <<>>
    /\ T_Validated_Threats = <<>>
    /\ config \in Configs
    /\ now = 0
    /\ task_lock = FALSE
    /\ task_status = "idle"
    /\ pc = "idle"
    /\ df_new_intel = {}
    /\ validated_threats = <<>>
    /\ processed_intel_ids = <<>>
    /\ tx = NoTx
    /\ hist = NoHist
    /\ notification = DefaultNotification
    /\ tz = 0
    /\ outbox = NoDispatch
    /\ job_log = <<>>
    /\ probe = NoProbe
    /\ web = NoWeb
    /\ sched = NoSched
    /\ cron = NoCron
    /\ send = NoSend

\* ------------------------------------------------------------ helpers
IntelIds == 1..Len(T_Raw_Intel)

\* variant: the WHERE clause is lost and every row is selected
NewIntelIds_all == IntelIds

\* SELECT ... FROM T_Raw_Intel WHERE status = 'new'
NewIntelIds == {i \in IntelIds : T_Raw_Intel[i].status = "new"}

\* collectors.is_intel_exists: a row with that title or that cve_id
is_intel_exists(item) ==
    \E i \in IntelIds :
        IF item.cve_id # ""
        THEN T_Raw_Intel[i].cve_id = item.cve_id
        ELSE T_Raw_Intel[i].title = item.title

\* the row a collector inserts
NewIntelRow(item) ==
    [source |-> item.source, type |-> item.type, cve_id |-> item.cve_id,
     title |-> item.title, cvss_score |-> item.cvss_score,
     raw_data |-> item.raw_data, status |-> "new"]

\* cvss_score as the pass reads it: a NULL cell is None when every selected
\* row has NULL (object column) and NaN otherwise (float column)
CvssAsRead(i, selected) ==
    IF T_Raw_Intel[i].cvss_score.k = "num" THEN T_Raw_Intel[i].cvss_score
    ELSE IF \A j \in selected : T_Raw_Intel[j].cvss_score.k # "num"
         THEN CvssNone ELSE CvssNaN

\* intel_row.to_dict()
IntelData(i, selected) ==
    [id |-> i, source |-> T_Raw_Intel[i].source, type |-> T_Raw_Intel[i].type,
     cve_id |-> T_Raw_Intel[i].cve_id, title |-> T_Raw_Intel[i].title,
     cvss_score |-> CvssAsRead(i, selected), raw_data |-> T_Raw_Intel[i].raw_data]

AssetById(asset_id) == CHOOSE a \in T_Assets : a.id = asset_id

\* step 3 for one intel row: the threats appended to validated_threats
ThreatsOfIntel(intel_data) ==
    LET m == IF Upper(intel_data.type) = t_CVE
             THEN match_cve_with_assets(intel_data, T_Assets)
             ELSE [raised |-> FALSE, ids |-> {}]
        order == AscSeq({a \in m.ids :
                    ~calculate_risk_score(intel_data, AssetById(a)).raised})
    IN  [k \in 1..Len(order) |->
            [intel_id |-> intel_data.id, asset_id |-> order[k],
             risk_score |-> calculate_risk_score(intel_data, AssetById(order[k])).score,
             status |-> "new"]]

\* notification.thresholds.critical with its default
CriticalThreshold(cfg) ==
    IF cfg.critical = Missing THEN DefaultCritical ELSE cfg.critical

\* variant: the critical selection whatever the status of the row
CriticalSelection_anyStatus(cfg) ==
    {k \in 1..Len(T_Validated_Threats) :
        /\ T_Validated_Threats[k].risk_score > CriticalThreshold(cfg)
        /\ T_Validated_Threats[k].timestamp >= now - Hour}

\* variant: the selection without its time window
CriticalSelection_noWindow(cfg) ==
    {k \in 1..Len(T_Validated_Threats) :
        /\ T_Validated_Threats[k].risk_score > CriticalThreshold(cfg)
        /\ T_Validated_Threats[k].status = "new"}

\* the rows check_and_notify_critical_threats selects
CriticalSelection(cfg) ==
    {k \in 1..Len(T_Validated_Threats) :
        /\ T_Validated_Threats[k].risk_score > CriticalThreshold(cfg)
        /\ T_Validated_Threats[k].status = "new"
        /\ T_Validated_Threats[k].timestamp >= now - Hour
        /\ T_Validated_Threats[k].intel_id \in IntelIds
        /\ \E a \in T_Assets : a.id = T_Validated_Threats[k].asset_id}

\* position of a selected row under ORDER BY risk_score DESC
RankOf(k, sel) ==
    Cardinality({j \in sel :
        \/ T_Validated_Threats[j].risk_score > T_Validated_Threats[k].risk_score
        \/ /\ T_Validated_Threats[j].risk_score = T_Validated_Threats[k].risk_score
           /\ j < k})

\* the orders in which step 3 may iterate the selected rows. The query is
\* ORDER BY timestamp DESC and rows inserted within one second tie, in an
\* order the query does not define; the rows here carry no insertion time
\* and every order is allowed, the descending one included
IterationOrders(selected) ==
    {o \in [1..Cardinality(selected) -> selected] :
        \A a, b \in 1..Cardinality(selected) : a # b => o[a] # o[b]}

RECURSIVE ThreatsInOrder(_, _)
\* validated_threats after step 3 has iterated the rows in order o
ThreatsInOrder(o, selected) ==
    IF o = <<>> THEN <<>>
    ELSE ThreatsOfIntel(IntelData(Head(o), selected)) \o ThreatsInOrder(Tail(o), selected)

\* processing of one row raised (caught by the per-item handler)
ProcessingRaised(intel_data) ==
    /\ Upper(intel_data.type) = t_CVE
    /\ match_cve_with_assets(intel_data, T_Assets).raised

RECURSIVE ProcessedInOrder_skipRaised(_, _, _)
\* variant: the per-item exception handler does not record the id
ProcessedInOrder_skipRaised(o, selected, acc) ==
    IF o = <<>> THEN acc
    ELSE ProcessedInOrder_skipRaised(Tail(o), selected,
             IF ProcessingRaised(IntelData(Head(o), selected))
             THEN acc ELSE Append(acc, Head(o)))

RECURSIVE ProcessedInOrder(_, _, _)
\* processed_intel_ids after step 3 has iterated the rows in order o: the
\* id is appended on the match path, on the no-match path and, when not
\* yet in the list, by the per-item exception handler
ProcessedInOrder(o, selected, acc) ==
    IF o = <<>> THEN acc
    ELSE LET i == Head(o)
             inAcc == \E k \in 1..Len(acc) : acc[k] = i
         IN  ProcessedInOrder(Tail(o), selected,
                 IF ProcessingRaised(IntelData(i, selected)) /\ inAcc
                 THEN acc ELSE Append(acc, i))

RECURSIVE WithoutIndices_stop(_, _, _)
\* variant: the first failed INSERT ends the loop
WithoutIndices_stop(seq, F, k) ==
    IF seq = <<>> \/ k \in F THEN <<>>
    ELSE <<Head(seq)>> \o WithoutIndices_stop(Tail(seq), F, k + 1)

RECURSIVE WithoutIndices(_, _, _)
\* the elements of seq whose index, counted from k, is not in F
WithoutIndices(seq, F, k) ==
    IF seq = <<>> THEN <<>>
    ELSE (IF k \in F THEN <<>> ELSE <<Head(seq)>>) \o WithoutIndices(Tail(seq), F, k + 1)

\* variant: the UPDATEs are lost
ApplyStatus_none(intel, updates) == intel

\* the rows of T_Raw_Intel after the UPDATEs of the transaction
ApplyStatus(intel, updates) ==
    [i \in 1..Len(intel) |->
        LET hits == {k \in 1..Len(updates) : updates[k][1] = i}
        IN  IF hits = {} THEN intel[i]
            ELSE [intel[i] EXCEPT !.status =
                     updates[CHOOSE k \in hits : \A j \in hits : j <= k][2]]]


\* ----------------------------------------------------------- collectors
\* variant: a collector that replaces the row of an item it already holds
fetch_feed_replace(k) ==
    /\ pc = "idle"
    /\ IF is_intel_exists(FeedItems[k])
       THEN T_Raw_Intel' =
               [i \in IntelIds |->
                   IF T_Raw_Intel[i].cve_id = FeedItems[k].cve_id
                      /\ T_Raw_Intel[i].title = FeedItems[k].title
                   THEN NewIntelRow(FeedItems[k]) ELSE T_Raw_Intel[i]]
       ELSE /\ Len(T_Raw_Intel) < MaxIntel
            /\ T_Raw_Intel' = Append(T_Raw_Intel, NewIntelRow(FeedItems[k]))
    /\ UNCHANGED <<T_Assets, T_Validated_Threats, config, now, task_lock, task_status,
                   pc, df_new_intel, validated_threats, processed_intel_ids, tx, hist>>
    /\ UNCHANGED dispatch_vars
    /\ UNCHANGED extra_vars

\* a collector run that finds feed item k new and inserts it
fetch_feed(k) ==
    /\ pc = "idle"
    /\ Len(T_Raw_Intel) < MaxIntel
    /\ ~is_intel_exists(FeedItems[k])
    /\ T_Raw_Intel' = Append(T_Raw_Intel, NewIntelRow(FeedItems[k]))
    /\ UNCHANGED <<T_Assets, T_Validated_Threats, config, now, task_lock, task_status,
                   pc, df_new_intel, validated_threats, processed_intel_ids, tx, hist>>
    /\ UNCHANGED dispatch_vars
    /\ UNCHANGED extra_vars

\* time passes between jobs
Tick ==
    /\ pc = "idle"
    /\ now < MaxTime
    /\ now' = now + 1
    /\ UNCHANGED <<T_Assets, T_Raw_Intel, T_Validated_Threats, config, task_lock,
                   task_status, pc, df_new_intel, validated_threats,
                   processed_intel_ids, tx, hist>>
    /\ UNCHANGED dispatch_vars
    /\ UNCHANGED extra_vars

\* ------------------------------------------------- web control surface
StartPass(intel) ==
    [NoHist EXCEPT !.outcome = "running",
                   !.startNew = {i \in 1..Len(intel) : intel[i].status = "new"},
                   !.startThreats = T_Validated_Threats,
                   !.startIntel = intel]

\* POST /api/trigger/correlation, up to the call of run_correlation_analysis
trigger_correlation ==
    /\ pc = "idle"
    /\ ~task_lock
    /\ \/ /\ task_lock' = TRUE
          /\ task_status' = "running"
          /\ pc' = "load"
          /\ hist' = StartPass(T_Raw_Intel)
       \/ \* get_db_connection() returned None
          /\ task_status' = "error"
          /\ UNCHANGED <<task_lock, pc, hist>>
    /\ UNCHANGED <<T_Assets, T_Raw_Intel, T_Validated_Threats, config, now,
                   df_new_intel, validated_threats, processed_intel_ids, tx>>
    /\ UNCHANGED dispatch_vars
    /\ UNCHANGED extra_vars

\* POST /api/trigger/all: the collectors insert the feed items S they find
\* new, then the handler calls run_correlation_analysis
trigger_all(S) ==
    /\ pc = "idle"
    /\ ~task_lock
    /\ Len(T_Raw_Intel) + Cardinality(S) <= MaxIntel
    /\ \A k \in S : ~is_intel_exists(FeedItems[k])
    /\ LET order == AscSeq(S)
           rows == [j \in 1..Len(order) |-> NewIntelRow(FeedItems[order[j]])]
       IN  /\ T_Raw_Intel' = T_Raw_Intel \o rows
           /\ hist' = StartPass(T_Raw_Intel \o rows)
    /\ task_lock' = TRUE
    /\ task_status' = "running"
    /\ pc' = "load"
    /\ UNCHANGED <<T_Assets, T_Validated_Threats, config, now, df_new_intel,
                   validated_threats, processed_intel_ids, tx>>
    /\ UNCHANGED dispatch_vars
    /\ UNCHANGED extra_vars

\* the handler after run_correlation_analysis has returned
task_return ==
    /\ pc = "return"
    /\ task_status' = "completed"
    /\ task_lock' = FALSE
    /\ pc' = "idle"
    /\ hist' = NoHist
    /\ df_new_intel' = {}
    /\ validated_threats' = <<>>
    /\ processed_intel_ids' = <<>>
    /\ UNCHANGED <<T_Assets, T_Raw_Intel, T_Validated_Threats, config, now, tx>>
    /\ UNCHANGED dispatch_vars
    /\ UNCHANGED extra_vars

\* ------------------------------------------- run_correlation_analysis
\* variant: the outer handler keeps the rows written so far
FatalAbort_keep(where) ==
    /\ tx' = NoTx
    /\ T_Validated_Threats' = T_Validated_Threats \o tx.threats
    /\ UNCHANGED T_Raw_Intel
    /\ pc' = "return"
    /\ hist' = [hist EXCEPT !.outcome = "aborted", !.fatalAt = where]

\* db_conn.rollback() in the outer handler, then the function returns
FatalAbort(where) ==
    /\ tx' = NoTx
    /\ UNCHANGED <<T_Raw_Intel, T_Validated_Threats>>
    /\ pc' = "return"
    /\ hist' = [hist EXCEPT !.outcome = "aborted", !.fatalAt = where]

\* steps 1 and 2: read the inventory and the backlog
rca_load ==
    /\ pc = "load"
    /\ \/ \* a read raises
          /\ FatalAbort("load")
          /\ UNCHANGED df_new_intel
       \/ /\ T_Assets = {}
          /\ pc' = "return"
          /\ hist' = [hist EXCEPT !.outcome = "empty_assets"]
          /\ UNCHANGED <<df_new_intel, tx, T_Raw_Intel, T_Validated_Threats>>
       \/ /\ T_Assets # {}
          /\ NewIntelIds = {}
          /\ pc' = "return"
          /\ hist' = [hist EXCEPT !.outcome = "no_intel"]
          /\ UNCHANGED <<df_new_intel, tx, T_Raw_Intel, T_Validated_Threats>>
       \/ /\ T_Assets # {}
          /\ NewIntelIds # {}
          /\ df_new_intel' = NewIntelIds
          /\ pc' = "match"
          /\ UNCHANGED <<tx, hist, T_Raw_Intel, T_Validated_Threats>>
    /\ UNCHANGED <<T_Assets, config, now, task_lock, task_status,
                   validated_threats, processed_intel_ids>>
    /\ UNCHANGED dispatch_vars
    /\ UNCHANGED extra_vars

\* step 3: every selected row is matched and scored; a row whose
\* processing raised is appended to processed_intel_ids all the same
rca_match ==
    /\ pc = "match"
    /\ \E o \in IterationOrders(df_new_intel) :
          /\ validated_threats' = ThreatsInOrder(o, df_new_intel)
          /\ processed_intel_ids' = ProcessedInOrder(o, df_new_intel, <<>>)
    /\ pc' = "write"
    /\ UNCHANGED <<T_Assets, T_Raw_Intel, T_Validated_Threats, config, now,
                   task_lock, task_status, df_new_intel, tx, hist>>
    /\ UNCHANGED dispatch_vars
    /\ UNCHANGED extra_vars

\* step 4: one INSERT per element of validated_threats; the INSERTs with
\* index in F raise sqlite3.Error, which is counted, and the loop goes on
rca_write(F) ==
    /\ pc = "write"
    /\ F \subseteq 1..Len(validated_threats)
    /\ tx' = [tx EXCEPT !.threats =
                 WithoutIndices([k \in 1..Len(validated_threats) |->
                                    [intel_id |-> validated_threats[k].intel_id,
                                     asset_id |-> validated_threats[k].asset_id,
                                     risk_score |-> validated_threats[k].risk_score,
                                     status |-> validated_threats[k].status,
                                     timestamp |-> now]], F, 1)]
    /\ hist' = [hist EXCEPT !.writeFailed = F]
    /\ pc' = "update"
    /\ UNCHANGED <<T_Assets, T_Raw_Intel, T_Validated_Threats, config, now,
                   task_lock, task_status, df_new_intel, validated_threats,
                   processed_intel_ids>>
    /\ UNCHANGED dispatch_vars
    /\ UNCHANGED extra_vars

\* variant: every processed id is reported as matched
NewStatus_processed(intel_id) == "processed"

\* the status step 5 writes for one processed id
NewStatus(intel_id) ==
    IF \E k \in 1..Len(validated_threats) : validated_threats[k].intel_id = intel_id
    THEN "processed" ELSE LoggedNoMatch

\* step 5: one UPDATE per processed id; an error of an UPDATE reaches the
\* outer handler, which rolls the transaction back
rca_update ==
    /\ pc = "update"
    /\ \/ /\ tx' = [tx EXCEPT !.status =
                       [k \in 1..Len(processed_intel_ids) |->
                           <<processed_intel_ids[k], NewStatus(processed_intel_ids[k])>>]]
          /\ pc' = "commit"
          /\ UNCHANGED <<hist, T_Raw_Intel, T_Validated_Threats>>
       \/ FatalAbort("update")
    /\ UNCHANGED <<T_Assets, config, now, task_lock, task_status, df_new_intel,
                   validated_threats, processed_intel_ids>>
    /\ UNCHANGED dispatch_vars
    /\ UNCHANGED extra_vars

\* db_conn.commit()
rca_commit ==
    /\ pc = "commit"
    /\ T_Validated_Threats' = T_Validated_Threats \o tx.threats
    /\ T_Raw_Intel' = ApplyStatus(T_Raw_Intel, tx.status)
    /\ tx' = NoTx
    /\ pc' = "notify"
    /\ hist' = [hist EXCEPT !.outcome = "committed"]
    /\ UNCHANGED <<T_Assets, config, now, task_lock, task_status, df_new_intel,
                   validated_threats, processed_intel_ids>>
    /\ UNCHANGED dispatch_vars
    /\ UNCHANGED extra_vars

\* the summary and the critical-threat trigger after the commit; n is the
\* number of rows notified before the notifier raised (all: no exception)
rca_notify ==
    /\ pc = "notify"
    /\ LET critical_threats == {k \in 1..Len(validated_threats) :
                                   validated_threats[k].risk_score >= HardCritical}
           sel == CriticalSelection(config)
       IN  IF critical_threats # {} /\ config.enabled
           THEN \E n \in 0..Cardinality(sel) :
                   hist' = [hist EXCEPT !.outcome = "completed", !.invoked = TRUE,
                              !.notified = {j \in sel : RankOf(j, sel) < n}]
           ELSE hist' = [hist EXCEPT !.outcome = "completed"]
    /\ pc' = "return"
    /\ UNCHANGED <<T_Assets, T_Raw_Intel, T_Validated_Threats, config, now,
                   task_lock, task_status, df_new_intel, validated_threats,
                   processed_intel_ids, tx>>
    /\ UNCHANGED dispatch_vars
    /\ UNCHANGED extra_vars

\* ------------------------------------------------------- specification
Next ==
    \/ \E k \in 1..Len(FeedItems) : fetch_feed(k)
    \/ Tick
    \/ trigger_correlation
    \/ \E S \in SUBSET (1..Len(FeedItems)) : trigger_all(S)
    \/ task_return
    \/ rca_load
    \/ rca_match
    \/ \E F \in SUBSET (1..Len(validated_threats)) : rca_write(F)
    \/ rca_update
    \/ rca_commit
    \/ rca_notify

Spec == Init /\ [][Next]_vars

\* ------------------------------------------------- timestamps as text
\* Every timestamp of a run starts with the same year and month; the texts
\* here are what follows: the day of the month and the hour
DigitChars == <<"0","1","2","3","4","5","6","7","8","9">>

Fmt2(n) == <<DigitChars[(n \div 10) + 1], DigitChars[(n % 10) + 1]>>

\* CURRENT_TIMESTAMP of SQLite: UTC, 'YYYY-MM-DD HH:MM:SS'
CurrentTimestamp(t) == Fmt2(t \div DayHours) \o <<" ">> \o Fmt2(t % DayHours)

\* datetime.isoformat(): 'YYYY-MM-DDTHH:MM:SS.ffffff'
IsoFormat(t) == Fmt2(t \div DayHours) \o <<"T">> \o Fmt2(t % DayHours)

\* the characters of these texts in the order of their code points
CodeOrder == <<" ","0","1","2","3","4","5","6","7","8","9","T">>

CodePoint(c) == CHOOSE k \in 1..Len(CodeOrder) : CodeOrder[k] = c

\* a >= b for two TEXT values of SQLite (the timestamp column holds text,
\* the bound parameter is text, the collation is BINARY)
RECURSIVE TextGE(_, _)

TextGE(a, b) ==
    IF b = <<>> THEN TRUE
    ELSE IF a = <<>> THEN FALSE
    ELSE IF Head(a) = Head(b) THEN TextGE(Tail(a), Tail(b))
    ELSE CodePoint(Head(a)) > CodePoint(Head(b))

\* ------------------------------------------------- notification_handler
\* thresholds.high with its default
HighThreshold(ncfg) == IF ncfg.high = Missing THEN DefaultHigh ELSE ncfg.high

\* the rows notify_high_risk_daily_summary selects: start_date is the local
\* time 24 hours ago in ISO format, compared with the stored UTC text
HighDailySelection ==
    {k \in 1..Len(T_Validated_Threats) :
        /\ TextGE(CurrentTimestamp(T_Validated_Threats[k].timestamp),
                  IsoFormat(now + tz - DayHours))
        /\ T_Validated_Threats[k].risk_score > HighThreshold(notification)
        /\ T_Validated_Threats[k].risk_score <= CriticalThreshold(config)
        /\ T_Validated_Threats[k].status = "new"
        /\ T_Validated_Threats[k].intel_id \in IntelIds
        /\ \E a \in T_Assets : a.id = T_Validated_Threats[k].asset_id}

\* a selection in the order of ORDER BY risk_score DESC
SelectionOrder(sel) ==
    [i \in 1..Cardinality(sel) |-> CHOOSE k \in sel : RankOf(k, sel) = i - 1]

HasAddress(addr) == addr # ""

\* for g in rec_groups: addr = recipients_map.get(g); if addr: append
GroupAddresses(rec_groups) ==
    SelectSeq([i \in 1..Len(rec_groups) |-> notification.recipients[rec_groups[i]]],
              HasAddress)

\* target_emails of one notification type, with the fallback of the old layout
TargetEmails(type_cfg, fallback) ==
    LET listed == IF type_cfg.enabled THEN GroupAddresses(type_cfg.recipients)
                  ELSE <<>>
    IN  IF listed # <<>> THEN listed
        ELSE IF HasAddress(fallback) THEN <<fallback>> ELSE <<>>

\* one message per element of a list of addresses
Messages(kind, rows, addrs) ==
    [i \in 1..Len(addrs) |-> [kind |-> kind, rows |-> rows, to |-> addrs[i]]]

\* notify_critical_threat for row k: the send_email calls it makes
notify_critical_threat(k, owner_email) ==
    IF ~config.enabled \/ ~notification.email_enabled THEN <<>>
    ELSE LET owner_part ==
                 IF HasAddress(owner_email) /\ notification.channels_email
                    /\ notification.email_enabled
                 THEN Messages("ticket", {k}, <<owner_email>>) ELSE <<>>
             officers ==
                 IF notification.email_enabled
                 THEN TargetEmails(notification.types.critical,
                                   notification.to_address)
                 ELSE <<>>
         IN  owner_part \o Messages("alert", {k}, officers)

\* send_email: False without a recipient, a sender or a server, and False
\* when the transport raised (every exception is caught)
send_email(to_address, transport_ok) ==
    /\ HasAddress(to_address)
    /\ HasAddress(notification.from_address)
    /\ HasAddress(notification.smtp_server)
    /\ transport_ok

\* variant: a loop that ends at the first failed send
RECURSIVE Sent_stopAtFailure(_, _, _)

Sent_stopAtFailure(msgs, R, i) ==
    IF i > Len(msgs) THEN <<>>
    ELSE LET a == [kind |-> msgs[i].kind, rows |-> msgs[i].rows, to |-> msgs[i].to,
                   ok |-> send_email(msgs[i].to, msgs[i].to \notin R)]
         IN  IF a.ok THEN <<a>> \o Sent_stopAtFailure(msgs, R, i + 1) ELSE <<a>>

\* a dispatch loop: send_email is called for every message, the transport
\* fails for the addresses in R, and the loop goes on
RECURSIVE Sent(_, _, _)

Sent(msgs, R, i) ==
    IF i > Len(msgs) THEN <<>>
    ELSE LET a == [kind |-> msgs[i].kind, rows |-> msgs[i].rows, to |-> msgs[i].to,
                   ok |-> send_email(msgs[i].to, msgs[i].to \notin R)]
         IN  <<a>> \o Sent(msgs, R, i + 1)

\* the addresses a list of messages goes to
ToSet(msgs) == {msgs[i].to : i \in 1..Len(msgs)}

RECURSIVE Concat(_)

Concat(ss) == IF ss = <<>> THEN <<>> ELSE Head(ss) \o Concat(Tail(ss))

\* the messages of check_and_notify_critical_threats, row by row;
\* owner_email is None for every row
CriticalMessages ==
    IF ~config.enabled THEN <<>>
    ELSE LET order == SelectionOrder(CriticalSelection(config))
         IN  Concat([i \in 1..Len(order) |-> notify_critical_threat(order[i], "")])

\* the messages of notify_high_risk_daily_summary: one digest of all the
\* selected rows per address
HighDailyMessages ==
    IF ~config.enabled \/ HighDailySelection = {} \/ ~notification.email_enabled
    THEN <<>>
    ELSE Messages("digest", HighDailySelection,
                  TargetEmails(notification.types.high_daily,
                               notification.to_address))

\* notify_weekly_report: the messages it sends
notify_weekly_report(report_filepath, target_email) ==
    IF ~notification.email_enabled THEN <<>>
    ELSE LET target_emails ==
                 IF HasAddress(target_email) THEN <<target_email>>
                 ELSE TargetEmails(notification.types.weekly_report,
                                   notification.to_address)
         IN  IF ~HasAddress(notification.smtp_server)
                \/ ~HasAddress(notification.from_address)
             THEN <<>>
             ELSE Messages("weekly", {}, target_emails)

IsIt(g) == g = "it"

\* notify_it_tickets: the messages it sends; the report file is read
\* first and an unreadable file ends the function
notify_it_tickets(report_readable, target_email) ==
    IF ~notification.email_enabled THEN <<>>
    ELSE LET weekly_cfg == notification.types.weekly_report
             listed == IF weekly_cfg.enabled
                       THEN GroupAddresses(SelectSeq(weekly_cfg.recipients, IsIt))
                       ELSE <<>>
             target_emails ==
                 IF HasAddress(target_email) THEN <<target_email>>
                 ELSE IF listed # <<>> THEN listed
                 ELSE IF HasAddress(notification.it_email)
                      THEN <<notification.it_email>> ELSE <<>>
         IN  IF ~HasAddress(notification.smtp_server)
                \/ ~HasAddress(notification.from_address)
                \/ ~report_readable
             THEN <<>>
             ELSE Messages("tickets", {}, target_emails)

\* what a dispatch leaves alone: it reads the tables and writes none
DispatchFrame ==
    UNCHANGED <<T_Assets, T_Raw_Intel, T_Validated_Threats, config, now, task_lock,
                task_status, pc, df_new_intel, validated_threats,
                processed_intel_ids, tx, hist, notification, tz, extra_vars>>

check_and_notify_critical_threats ==
    /\ \E R \in SUBSET ToSet(CriticalMessages) :
          outbox' = [op |-> "critical", attempts |-> Sent(CriticalMessages, R, 1),
                     rejects |-> R]
    /\ UNCHANGED job_log
    /\ DispatchFrame

notify_high_risk_daily_summary ==
    /\ \E R \in SUBSET ToSet(HighDailyMessages) :
          outbox' = [op |-> "high_daily", attempts |-> Sent(HighDailyMessages, R, 1),
                     rejects |-> R]
    /\ UNCHANGED job_log
    /\ DispatchFrame

\* notify_weekly_report called without a target address
send_weekly_report ==
    /\ LET msgs == notify_weekly_report(TRUE, "")
       IN  \E R \in SUBSET ToSet(msgs) :
              outbox' = [op |-> "weekly_report", attempts |-> Sent(msgs, R, 1),
                         rejects |-> R]
    /\ UNCHANGED job_log
    /\ DispatchFrame

\* notify_it_tickets called without a target address
send_it_tickets ==
    /\ \E report_readable \in BOOLEAN :
          LET msgs == notify_it_tickets(report_readable, "")
          IN  \E R \in SUBSET ToSet(msgs) :
                 outbox' = [op |-> "it_tickets", attempts |-> Sent(msgs, R, 1),
                            rejects |-> R]
    /\ UNCHANGED job_log
    /\ DispatchFrame

\* ------------------------------------------------------------ job_events
\* dict.update: the fields of rec replace those of old
Merge(old, rec) ==
    [f \in (DOMAIN old) \cup (DOMAIN rec) |-> IF f \in DOMAIN rec THEN rec[f] ELSE old[f]]

\* _logfile_path of a writer: the file of the Taipei date
TaipeiDay(t) == (t + TaipeiOffset) \div DayHours

LogIds(log) == {log[i].rec.id : i \in 1..Len(log)}

\* uuid4: an id no line carries
FreshId(log) == Cardinality(LogIds(log)) + 1

\* start_event: one line with every field of a new event. The fields
\* message, report_filepath, recipients and duration_ms are left out
start_event(log, metadata) ==
    Append(log,
        [file |-> TaipeiDay(now),
         rec |-> Merge([id |-> FreshId(log), triggered_at |-> now,
                        phase |-> "scheduled", status |-> "running",
                        email_result |-> "None", updated_at |-> now], metadata)])

\* update_event: one line with the id and the updated fields
update_event(log, event_id, updates) ==
    Append(log,
        [file |-> TaipeiDay(now),
         rec |-> Merge([id |-> event_id, updated_at |-> now], updates)])

\* the number of daily files list_recent_events reads
RecentDays == 3

\* the files in the order they are read: delta = 0, 1, 2, and the date of
\* now.fromtimestamp(...), a naive time of the system's local zone
FilesRead == [d \in 1..RecentDays |-> (now + tz - (d - 1) * DayHours) \div DayHours]

FileLines(log, day) ==
    LET InFile(l) == l.file = day IN SelectSeq(log, InFile)

LinesRead(log) == Concat([d \in 1..RecentDays |-> FileLines(log, FilesRead[d])])

RECURSIVE FoldLines(_, _)

\* out[_id].update(rec), line after line
FoldLines(lines, out) ==
    IF lines = <<>> THEN out
    ELSE LET r == Head(lines).rec
         IN  FoldLines(Tail(lines), [out EXCEPT ![r.id] = Merge(out[r.id], r)])

\* the dict out of list_recent_events
FoldedEvents(log) ==
    FoldLines(LinesRead(log), [i \in LogIds(LinesRead(log)) |-> [f \in {} |-> 0]])

SortKey(x) == IF "triggered_at" \in DOMAIN x THEN x.triggered_at ELSE x.updated_at

\* list_recent_events: the folded events by triggered_at (or updated_at),
\* latest first; events with one key keep the order of their first line
list_recent_events(log, limit) ==
    LET out == FoldedEvents(log)
        lines == LinesRead(log)
        First(i) == CHOOSE k \in 1..Len(lines) :
                       /\ lines[k].rec.id = i
                       /\ \A j \in 1..(k - 1) : lines[j].rec.id # i
        Before(i, j) == \/ SortKey(out[i]) > SortKey(out[j])
                        \/ SortKey(out[i]) = SortKey(out[j]) /\ First(i) < First(j)
        items == [p \in 1..Cardinality(DOMAIN out) |->
                    out[CHOOSE i \in DOMAIN out :
                           Cardinality({j \in DOMAIN out : Before(j, i)}) = p - 1]]
    IN  SubSeq(items, 1, IF Len(items) < limit THEN Len(items) ELSE limit)

\* ------------------------------------------------------------- scheduler
\* generate_weekly_report_job imports datetime inside its body ("from
\* datetime import datetime", line 199), which makes the name local to the
\* whole function; the first statement of the function reads it (line 91)
DatetimeBoundAt == 199

DatetimeReadAt == 91

\* risk_threshold of generate_it_tickets_for_high_risk
TicketThreshold == 700

\* target_emails of the weekly job: one element per listed group that has
\* an address, or the to_address of the old layout
WeeklyTargets ==
    LET listed == GroupAddresses(notification.types.weekly_report.recipients)
    IN  IF listed # <<>> THEN listed
        ELSE IF HasAddress(notification.to_address)
             THEN <<notification.to_address>> ELSE <<>>

\* recipient_types[addr]
WeeklyRecipientTypes(addr) ==
    LET rec_groups == notification.types.weekly_report.recipients
    IN  IF GroupAddresses(rec_groups) # <<>>
        THEN {rec_groups[i] : i \in {j \in 1..Len(rec_groups) :
                                        notification.recipients[rec_groups[j]] = addr}}
        ELSE {"ciso"}

RECURSIVE SumSeq(_)

SumSeq(ns) == IF ns = <<>> THEN 0 ELSE Head(ns) + SumSeq(Tail(ns))

\* the job from start_event on (lines 92 to 286). E is the set of addresses
\* for which a notify_ call raised
WeeklyJobBody(R, E, db_ok, ciso_saved, it_saved) ==
    LET weekly_cfg == notification.types.weekly_report
        id == FreshId(job_log)
        log1 == start_event(job_log, [phase |-> "scheduled"])
        Skipped(log) == update_event(log, id, [phase |-> "done", status |-> "skipped"])
        Failed(log) == update_event(log, id, [phase |-> "done", status |-> "error"])
        log2 == update_event(log1, id, [phase |-> "collect"])
        target_emails == WeeklyTargets
        needs_ciso_report == \E i \in 1..Len(target_emails) :
                                "ciso" \in WeeklyRecipientTypes(target_emails[i])
        needs_it_tickets == \E i \in 1..Len(target_emails) :
                               "it" \in WeeklyRecipientTypes(target_emails[i])
        it_tickets == {k \in 1..Len(T_Validated_Threats) :
                          /\ T_Validated_Threats[k].risk_score >= TicketThreshold
                          /\ T_Validated_Threats[k].status = "new"
                          /\ T_Validated_Threats[k].intel_id \in IntelIds
                          /\ \E a \in T_Assets : a.id = T_Validated_Threats[k].asset_id}
        ciso_report_filepath == needs_ciso_report /\ ciso_saved
        it_report_filepath == needs_it_tickets /\ it_tickets # {} /\ it_saved
        log3 == IF needs_ciso_report
                THEN update_event(log2, id, [phase |-> "report"]) ELSE log2
        log4 == IF needs_it_tickets
                THEN update_event(log3, id, [phase |-> "report"]) ELSE log3
        log5 == update_event(log4, id, [phase |-> "notify"])
        send_ciso(addr) == "ciso" \in WeeklyRecipientTypes(addr) /\ ciso_report_filepath
        send_it(addr) == "it" \in WeeklyRecipientTypes(addr) /\ it_report_filepath
        PerAddress(addr) ==
            IF addr \in E THEN <<>>
            ELSE (IF send_ciso(addr) THEN notify_weekly_report(TRUE, addr) ELSE <<>>)
                 \o (IF send_it(addr) THEN notify_it_tickets(TRUE, addr) ELSE <<>>)
        Counted(addr) ==
            IF addr \in E THEN 0
            ELSE (IF send_ciso(addr) THEN 1 ELSE 0) + (IF send_it(addr) THEN 1 ELSE 0)
        msgs == Concat([i \in 1..Len(target_emails) |-> PerAddress(target_emails[i])])
        success_count == SumSeq([i \in 1..Len(target_emails) |->
                                    Counted(target_emails[i])])
        error_messages == {target_emails[i] : i \in {j \in 1..Len(target_emails) :
                              /\ target_emails[j] \in E
                              /\ send_ciso(target_emails[j]) \/ send_it(target_emails[j])}}
    IN  IF ~weekly_cfg.enabled \/ ~notification.email_enabled
        THEN [log |-> Skipped(log1), attempts |-> <<>>]
        ELSE IF ~db_ok \/ target_emails = <<>>
        THEN [log |-> Failed(IF db_ok THEN log2 ELSE log1), attempts |-> <<>>]
        ELSE IF success_count > 0
        THEN [log |-> update_event(log5, id,
                         [phase |-> "done", status |-> "success",
                          email_result |-> IF error_messages = {} THEN "success"
                                           ELSE "partial"]),
              attempts |-> Sent(msgs, R, 1)]
        ELSE [log |-> update_event(log5, id,
                         [phase |-> "done", status |-> "error",
                          email_result |-> "error"]),
              attempts |-> Sent(msgs, R, 1)]

\* the weekly job as the scheduler runs it. Reading the unbound local
\* raises UnboundLocalError inside the outer try; its handler finds ev
\* None, so nothing is logged and nothing is sent
generate_weekly_report_job ==
    /\ \E R \in SUBSET ToSet(Messages("weekly", {}, WeeklyTargets)) :
          IF DatetimeReadAt < DatetimeBoundAt
          THEN /\ job_log' = job_log
               /\ outbox' = [op |-> "weekly_job", attempts |-> <<>>, rejects |-> R]
          ELSE \E E \in SUBSET ToSet(Messages("weekly", {}, WeeklyTargets)),
                  db_ok \in BOOLEAN, ciso_saved \in BOOLEAN, it_saved \in BOOLEAN :
                  LET run == WeeklyJobBody(R, E, db_ok, ciso_saved, it_saved)
                  IN  /\ job_log' = run.log
                      /\ outbox' = [op |-> "weekly_job", attempts |-> run.attempts,
                                    rejects |-> R]
    /\ DispatchFrame

\* ------------------------------------------- the dispatchers on a table
\* the rows a table of threats is drawn from: scores at and around the
\* default thresholds, a status an operator has set, and rows of this
\* hour, of an earlier hour of the last 24 and of more than 24 hours ago
MaxThreatRows == 2

ThreatScores == {DefaultHigh, 858, DefaultCritical, 1000}

ThreatStatuses == {"new", "acknowledged"}

RowAges == {0, 14, DayHours + 1}

\* the time of the run: 10:00 UTC on the second day
RunInstant == DayHours + 10

\* the rows get their ids in the order they are inserted, so a row with a
\* larger id is no older
ThreatTables ==
    UNION {{t \in [1..n -> [intel_id : {1}, asset_id : {2}, risk_score : ThreatScores,
                            status : ThreatStatuses,
                            timestamp : {RunInstant - a : a \in RowAges}]] :
               \A i, j \in 1..n : i < j => t[i].timestamp <= t[j].timestamp} :
           n \in 0..MaxThreatRows}

InitNotify ==
    /\ T_Assets = {Asset1, Asset2}
    /\ T_Raw_Intel = <<[NewIntelRow(FeedItems[2]) EXCEPT !.status = "processed"]>>
    /\ T_Validated_Threats \in ThreatTables
    /\ config \in Configs
    /\ now = RunInstant
    /\ task_lock = FALSE
    /\ task_status = "idle"
    /\ pc = "idle"
    /\ df_new_intel = {}
    /\ validated_threats = <<>>
    /\ processed_intel_ids = <<>>
    /\ tx = NoTx
    /\ hist = NoHist
    /\ notification \in NotificationConfigs
    /\ tz \in LocalOffsets
    /\ outbox = NoDispatch
    /\ job_log = <<>>
    /\ probe = NoProbe
    /\ web = NoWeb
    /\ sched = NoSched
    /\ cron = NoCron
    /\ send = NoSend

NextNotify ==
    \/ check_and_notify_critical_threats
    \/ notify_high_risk_daily_summary
    \/ send_weekly_report
    \/ send_it_tickets
    \/ generate_weekly_report_job

SpecNotify == InitNotify /\ [][NextNotify]_vars

\* ------------------------------------------------------------- claims
\* the pass has returned to its caller
PassEnded == pc = "return"

\* run_correlation_analysis returned without entering its outer handler
PassNotAborted == PassEnded /\ hist.outcome \in {"completed", "empty_assets", "no_intel"}

\* the pass went through its commit and the trigger that follows it
PassCommitted == PassEnded /\ hist.outcome = "completed"

\* the assets the matcher pairs with intel row i in this pass
MatchedAssets(i) ==
    IF Upper(T_Raw_Intel[i].type) = t_CVE
    THEN match_cve_with_assets(IntelData(i, hist.startNew), T_Assets).ids
    ELSE {}

\* ids of the threat rows that reference intel row i
RowsOfIntel(threats, i) == {k \in 1..Len(threats) : threats[k].intel_id = i}

\* ids of the threat rows this pass has committed
RowsOfThisPass == (Len(hist.startThreats) + 1)..Len(T_Validated_Threats)

\* C1 as stated: after a pass that was not aborted, every record that was
\* 'new' at its start and that no asset matched has status logged-no-match
\* and no threat row
C1_Original ==
    PassNotAborted =>
        \A i \in hist.startNew :
            MatchedAssets(i) = {} =>
                /\ T_Raw_Intel[i].status = LoggedNoMatch
                /\ RowsOfIntel(T_Validated_Threats, i) = {}

\* C1 amended: the same for a pass that reached its commit, which needs a
\* non-empty asset inventory
C1_NoMatchLogged ==
    PassCommitted =>
        \A i \in hist.startNew :
            MatchedAssets(i) = {} =>
                /\ T_Raw_Intel[i].status = LoggedNoMatch
                /\ RowsOfIntel(T_Validated_Threats, i) = {}

C1_Witness ==
    /\ PassCommitted
    /\ \E i \in hist.startNew :
          /\ Upper(T_Raw_Intel[i].type) = t_CVE
          /\ MatchedAssets(i) = {}
          /\ T_Raw_Intel[i].status = LoggedNoMatch
    /\ \E i \in hist.startNew : MatchedAssets(i) # {}

\* C2: no step creates a threat row for a record whose status is past
\* 'new' or changes the status of such a record; a pass that starts with
\* no 'new' record leaves T_Validated_Threats as it was
C2_Idempotent ==
    [][ /\ \A i \in IntelIds :
              T_Raw_Intel[i].status # "new" =>
                  /\ T_Raw_Intel'[i].status = T_Raw_Intel[i].status
                  /\ RowsOfIntel(T_Validated_Threats', i) = RowsOfIntel(T_Validated_Threats, i)
        /\ (pc # "idle" /\ hist.startNew = {}) =>
              T_Validated_Threats' = T_Validated_Threats ]_vars

C2_Witness ==
    /\ PassCommitted
    /\ RowsOfThisPass # {}
    /\ \E i \in 1..Len(hist.startIntel) :
          /\ hist.startIntel[i].status = "processed"
          /\ RowsOfIntel(hist.startThreats, i) # {}

\* C3 as stated: after a pass that was not aborted, no record that was
\* 'new' at its start is still 'new'
C3_Original ==
    PassNotAborted => \A i \in hist.startNew : T_Raw_Intel[i].status # "new"

\* C3 amended: the same for a pass that reached its commit (the inventory
\* was not empty), a record whose processing raised included
C3_FailForward ==
    PassCommitted => \A i \in hist.startNew : T_Raw_Intel[i].status # "new"

C3_Witness ==
    /\ PassCommitted
    /\ \E i \in hist.startNew :
          /\ ProcessingRaised(IntelData(i, hist.startNew))
          /\ T_Raw_Intel[i].status = LoggedNoMatch

\* one row at most for each (intel_id, asset_id)
UniquePairs(threats) ==
    \A j, k \in 1..Len(threats) :
        (threats[j].intel_id = threats[k].intel_id /\ threats[j].asset_id = threats[k].asset_id)
            => j = k

\* C4: every step leaves the rows already in T_Validated_Threats as they
\* are, and the table holds one row at most for each (intel, asset) pair
C4_AppendOnlyUnique ==
    [][ /\ Len(T_Validated_Threats') >= Len(T_Validated_Threats)
        /\ SubSeq(T_Validated_Threats', 1, Len(T_Validated_Threats)) = T_Validated_Threats
        /\ UniquePairs(T_Validated_Threats') ]_vars

C4_Witness ==
    /\ PassCommitted
    /\ hist.startThreats # <<>>
    /\ Len(T_Validated_Threats) > Len(hist.startThreats)
    /\ \E j \in 1..Len(hist.startThreats) : \E k \in RowsOfThisPass :
          T_Validated_Threats[j].asset_id = T_Validated_Threats[k].asset_id

\* C5: no step removes an intel row or takes a status that has left 'new'
\* back to 'new', and the status changes in the commit of a pass only
C5_StatusOneWay ==
    [][ /\ Len(T_Raw_Intel') >= Len(T_Raw_Intel)
        /\ \A i \in IntelIds :
              /\ T_Raw_Intel[i].status # "new" => T_Raw_Intel'[i].status # "new"
              /\ T_Raw_Intel'[i].status # T_Raw_Intel[i].status => pc = "commit" ]_vars

C5_Witness ==
    /\ pc = "idle"
    /\ \E i, j \in IntelIds :
          /\ i < j
          /\ T_Raw_Intel[i].status = "processed"
          /\ T_Raw_Intel[j].status = "new"

\* C6: after a fatal abort the two tables are what they were when the
\* pass started and nothing is left uncommitted
C6_AbortNoWrites ==
    (PassEnded /\ hist.outcome = "aborted") =>
        /\ T_Validated_Threats = hist.startThreats
        /\ T_Raw_Intel = hist.startIntel
        /\ tx = NoTx

C6_Witness ==
    /\ PassEnded
    /\ hist.outcome = "aborted"
    /\ hist.fatalAt = "update"
    /\ validated_threats # <<>>
    /\ hist.writeFailed = {}

\* C7 as stated: the handler does not report 'completed' for a pass that a
\* fatal error aborted
C7_Original ==
    [][ (PassEnded /\ hist.outcome = "aborted") => task_status' # "completed" ]_vars

\* every threat whose INSERT did not fail is a row of this pass, nothing
\* else is, and every processed id has left 'new'
WritesPersisted ==
    /\ Cardinality(RowsOfThisPass) = Len(validated_threats) - Cardinality(hist.writeFailed)
    /\ \A k \in (1..Len(validated_threats)) \ hist.writeFailed :
          \E r \in RowsOfThisPass :
              /\ T_Validated_Threats[r].intel_id = validated_threats[k].intel_id
              /\ T_Validated_Threats[r].asset_id = validated_threats[k].asset_id
              /\ T_Validated_Threats[r].risk_score = validated_threats[k].risk_score
    /\ \A k \in 1..Len(processed_intel_ids) :
          T_Raw_Intel[processed_intel_ids[k]].status # "new"

C9_Original ==
    (PassCommitted /\ hist.writeFailed = {}) =>
        (hist.invoked <=>
            /\ config.enabled
            /\ \E k \in RowsOfThisPass :
                  T_Validated_Threats[k].risk_score >= CriticalThreshold(config))

\* C10 as stated: the critical path notifies rows of this pass only
C10_Original ==
    PassCommitted => hist.notified \subseteq RowsOfThisPass

\* C10 amended: the critical path notifies only rows of status 'new'
\* created within the trailing hour, rows of an earlier pass included
C10_TrailingHourOnly ==
    PassCommitted =>
        \A k \in hist.notified :
            /\ T_Validated_Threats[k].timestamp >= now - Hour
            /\ T_Validated_Threats[k].status = "new"

C10_Witness ==
    /\ PassCommitted
    /\ hist.invoked
    /\ hist.notified # {}
    /\ \E k \in 1..Len(hist.startThreats) :
          /\ T_Validated_Threats[k].risk_score > CriticalThreshold(config)
          /\ T_Validated_Threats[k].timestamp < now - Hour
          /\ k \notin hist.notified

\* --------------------------------------------- the progress log over time
\* the calls of job_events by test_send_weekly: the handler starts an event
\* and updates it, while the clock runs over midnight of Taipei
MaxJobs == 2

MaxLines == 3

MaxClockSteps == 2

\* the limit list_recent_events is called with by default
DefaultLimit == 20

\* 23:00 in Taipei on the second day
EventsStart == 2 * DayHours - TaipeiOffset - 1

\* the metadata test_send_weekly starts its event with
EventMetadata == {[phase |-> "notify"]}

\* the updates test_send_weekly ends its event with
EventUpdates ==
    {[phase |-> "done", status |-> "success", email_result |-> "success"],
     [phase |-> "done", status |-> "error", email_result |-> "error"]}

InitEvents ==
    /\ T_Assets = {}
    /\ T_Raw_Intel = <<>>
    /\ T_Validated_Threats = <<>>
    /\ config = [enabled |-> FALSE, critical |-> Missing]
    /\ now = EventsStart
    /\ task_lock = FALSE
    /\ task_status = "idle"
    /\ pc = "idle"
    /\ df_new_intel = {}
    /\ validated_threats = <<>>
    /\ processed_intel_ids = <<>>
    /\ tx = NoTx
    /\ hist = NoHist
    /\ notification = DefaultNotification
    /\ tz \in LocalOffsets
    /\ outbox = NoDispatch
    /\ job_log = <<>>
    /\ probe = NoProbe
    /\ web = NoWeb
    /\ sched = NoSched
    /\ cron = NoCron
    /\ send = NoSend

EventsFrame ==
    UNCHANGED <<T_Assets, T_Raw_Intel, T_Validated_Threats, config, task_lock,
                task_status, pc, df_new_intel, validated_threats,
                processed_intel_ids, tx, hist, notification, tz, outbox,
                extra_vars>>

\* a caller of start_event
event_started(metadata) ==
    /\ Len(job_log) < MaxLines
    /\ Cardinality(LogIds(job_log)) < MaxJobs
    /\ job_log' = start_event(job_log, metadata)
    /\ UNCHANGED now
    /\ EventsFrame

\* a caller of update_event, with the id start_event returned
event_updated(event_id, updates) ==
    /\ Len(job_log) < MaxLines
    /\ event_id \in LogIds(job_log)
    /\ job_log' = update_event(job_log, event_id, updates)
    /\ UNCHANGED now
    /\ EventsFrame

\* an hour passes
clock_hour ==
    /\ now < EventsStart + MaxClockSteps
    /\ now' = now + 1
    /\ UNCHANGED job_log
    /\ EventsFrame

NextEvents ==
    \/ \E metadata \in EventMetadata : event_started(metadata)
    \/ \E event_id \in 1..MaxJobs, updates \in EventUpdates :
          event_updated(event_id, updates)
    \/ clock_hour

SpecEvents == InitEvents /\ [][NextEvents]_vars

\* ------------------------------------------- claims on the dispatchers
\* the rows a dispatch sent a message about
RowsSent == UNION {outbox.attempts[i].rows : i \in 1..Len(outbox.attempts)}

\* the number of send_email calls of the dispatch for row k and address a
CallsFor(k, a) ==
    Cardinality({i \in 1..Len(outbox.attempts) :
                    outbox.attempts[i].to = a /\ k \in outbox.attempts[i].rows})

\* notifications and email are switched on and the type has a recipient
CanSend(type_cfg) ==
    /\ config.enabled
    /\ notification.email_enabled
    /\ TargetEmails(type_cfg, notification.to_address) # <<>>

WithinHour(k) == T_Validated_Threats[k].timestamp >= now - Hour

\* C11: check_and_notify_critical_threats notifies only rows of status
\* 'new' that were created within the trailing hour; an older row and a
\* row an operator has acknowledged are never notified
C11_OnlyNewWithinHour ==
    outbox.op = "critical" =>
        \A k \in RowsSent :
            T_Validated_Threats[k].status = "new" /\ WithinHour(k)

\* a dispatch that notified one row and left out a row above the threshold
\* that is acknowledged or older than an hour
C11_Witness ==
    /\ outbox.op = "critical"
    /\ \E k \in RowsSent :
          \E j \in 1..Len(T_Validated_Threats) :
             /\ j \notin RowsSent
             /\ T_Validated_Threats[j].risk_score > CriticalThreshold(config)
             /\ T_Validated_Threats[j].status # "new" \/ ~WithinHour(j)

\* C12: every status-'new' row of the trailing hour whose score is greater
\* than or equal to the critical threshold is selected by
\* check_and_notify_critical_threats, a score equal to the threshold included
C12_Original ==
    (outbox.op = "critical" /\ CanSend(notification.types.critical)) =>
        \A k \in 1..Len(T_Validated_Threats) :
            (/\ T_Validated_Threats[k].status = "new"
             /\ WithinHour(k)
             /\ T_Validated_Threats[k].risk_score >= CriticalThreshold(config))
            => k \in RowsSent

\* C13: for each selected row every address of the configured groups gets
\* one message, and no recipient gets more than one message for one row
C13_Original ==
    (outbox.op = "critical" /\ CanSend(notification.types.critical)) =>
        \A k \in CriticalSelection(config) :
            \A a \in ToSet(Messages("alert", {k},
                        TargetEmails(notification.types.critical,
                                     notification.to_address))) :
                CallsFor(k, a) = 1

InHighBandOfSpec(k) ==
    /\ T_Validated_Threats[k].risk_score >= HighThreshold(notification)
    /\ T_Validated_Threats[k].risk_score < CriticalThreshold(config)

\* C14: a status-'new' row that passes the time test of the daily query is
\* in the digest if and only if high_threshold <= score < critical_threshold
C14_Original ==
    (outbox.op = "high_daily" /\ CanSend(notification.types.high_daily)) =>
        \A k \in 1..Len(T_Validated_Threats) :
            (/\ T_Validated_Threats[k].status = "new"
             /\ TextGE(CurrentTimestamp(T_Validated_Threats[k].timestamp),
                       IsoFormat(now + tz - DayHours)))
            => (k \in RowsSent <=> InHighBandOfSpec(k))

\* C15: a status-'new' row that passes the score test of the daily query is
\* in the digest if and only if it was created at most 24 hours before the run
C15_Original ==
    (outbox.op = "high_daily" /\ CanSend(notification.types.high_daily)) =>
        \A k \in 1..Len(T_Validated_Threats) :
            (/\ T_Validated_Threats[k].status = "new"
             /\ T_Validated_Threats[k].risk_score > HighThreshold(notification)
             /\ T_Validated_Threats[k].risk_score <= CriticalThreshold(config))
            => (k \in RowsSent <=> T_Validated_Threats[k].timestamp >= now - DayHours)

\* the groups listed for the weekly report, with and without an address
WeeklyGroups ==
    {notification.types.weekly_report.recipients[i] :
        i \in 1..Len(notification.types.weekly_report.recipients)}

\* a weekly job that ran with the weekly type and email switched on
WeeklyJobRan ==
    /\ outbox.op = "weekly_job"
    /\ notification.types.weekly_report.enabled
    /\ notification.email_enabled

\* a message of the kind went to the address
Received(kind, a) ==
    \E i \in 1..Len(outbox.attempts) :
        outbox.attempts[i].kind = kind /\ outbox.attempts[i].to = a

\* a ticket list exists: some status-'new' row is at or above 7.0
TicketsExist ==
    \E k \in 1..Len(T_Validated_Threats) :
        /\ T_Validated_Threats[k].risk_score >= TicketThreshold
        /\ T_Validated_Threats[k].status = "new"

\* the last line the log holds
FinalEvent == job_log[Len(job_log)].rec

\* C16: in the weekly job a listed group without an address is skipped and
\* does not make the job fail: the job does not end in error and the
\* 'ciso' group, when it has an address, still receives the digest
C16_Original ==
    (WeeklyJobRan /\ \E g \in WeeklyGroups : ~HasAddress(notification.recipients[g])) =>
        /\ job_log # <<>>
        /\ FinalEvent.status # "error"
        /\ ("ciso" \in WeeklyGroups /\ HasAddress(notification.recipients["ciso"]))
              => Received("weekly", notification.recipients["ciso"])

\* C17: in the weekly job the digest goes only to the address of the 'ciso'
\* group and the ticket list only to the address of the 'it' group, and an
\* address of both groups receives both
C17_Original ==
    (WeeklyJobRan /\ {"ciso", "it"} \subseteq WeeklyGroups) =>
        /\ \A i \in 1..Len(outbox.attempts) :
              /\ outbox.attempts[i].kind = "weekly"
                    => outbox.attempts[i].to = notification.recipients["ciso"]
              /\ outbox.attempts[i].kind = "tickets"
                    => outbox.attempts[i].to = notification.recipients["it"]
        /\ (/\ notification.recipients["ciso"] = notification.recipients["it"]
            /\ HasAddress(notification.recipients["ciso"])
            /\ TicketsExist)
              => /\ Received("weekly", notification.recipients["ciso"])
                 /\ Received("tickets", notification.recipients["ciso"])

\* the recipients the dispatch of outbox.op is to reach: address and rows
Expected ==
    IF outbox.op = "critical"
    THEN {<<a, {k}>> : a \in ToSet(Messages("alert", {},
                                     TargetEmails(notification.types.critical,
                                                  notification.to_address))),
                       k \in IF config.enabled /\ notification.email_enabled
                             THEN CriticalSelection(config) ELSE {}}
    ELSE IF outbox.op = "high_daily"
    THEN {<<a, HighDailySelection>> :
             a \in IF config.enabled /\ notification.email_enabled
                      /\ HighDailySelection # {}
                   THEN ToSet(Messages("digest", {},
                               TargetEmails(notification.types.high_daily,
                                            notification.to_address)))
                   ELSE {}}
    ELSE IF outbox.op = "weekly_report"
    THEN {<<a, {}>> :
             a \in IF notification.email_enabled
                   THEN ToSet(Messages("weekly", {},
                               TargetEmails(notification.types.weekly_report,
                                            notification.to_address)))
                   ELSE {}}
    ELSE {}

\* the dispatch called send_email for every expected recipient
AllAttempted ==
    \A e \in Expected :
        \E i \in 1..Len(outbox.attempts) :
            outbox.attempts[i].to = e[1] /\ outbox.attempts[i].rows = e[2]

\* the IT ticket loop: once one address was tried, every address was
AllTicketsAttempted ==
    (outbox.op = "it_tickets" /\ outbox.attempts # <<>>) =>
        \A a \in ToSet(notify_it_tickets(TRUE, "")) : Received("tickets", a)

\* C18: in each dispatch loop (critical, high daily, weekly report, IT
\* tickets) a failed send_email for one recipient does not keep the loop
\* from calling send_email for every following recipient, and a dispatch,
\* failed or not, changes no row of the intel and threat tables
C18_FailureNonBlocking ==
    [][/\ AllAttempted'
       /\ AllTicketsAttempted'
       /\ outbox' # outbox => UNCHANGED <<T_Raw_Intel, T_Validated_Threats>>]_vars

\* a critical dispatch whose first send failed and whose second was made
C18_Witness ==
    /\ outbox.op = "critical"
    /\ Len(outbox.attempts) >= 2
    /\ ~outbox.attempts[1].ok
    /\ outbox.attempts[2].ok

\* C19: a weekly job in which the transport accepts one recipient and
\* refuses another ends with a final event of status 'success' that
\* carries email_result 'partial'
C19_Original ==
    (/\ WeeklyJobRan
     /\ HasAddress(notification.smtp_server)
     /\ \E a, b \in ToSet(Messages("weekly", {}, WeeklyTargets)) :
           a \notin outbox.rejects /\ b \in outbox.rejects) =>
        /\ job_log # <<>>
        /\ FinalEvent.status = "success"
        /\ FinalEvent.email_result = "partial"

\* ---------------------------------------------- claim on the progress log
\* the value of field f in the line of event i that was appended last
\* among its lines that carry f
LastWritten(i, f) ==
    LET carrying == {k \in 1..Len(job_log) :
                        job_log[k].rec.id = i /\ f \in DOMAIN job_log[k].rec}
    IN  job_log[CHOOSE k \in carrying : \A j \in carrying : j <= k].rec[f]

\* C20: for a reader in the zone of the writers, every event that
\* list_recent_events returns carries, for every field, the value of the
\* most recently appended line of its id that holds the field
C20_Original ==
    tz = TaipeiOffset =>
        LET items == list_recent_events(job_log, DefaultLimit)
        IN  \A p \in 1..Len(items) :
                \A f \in DOMAIN items[p] :
                    items[p][f] = LastWritten(items[p].id, f)

\* ------------------------------------------------- calls of the functions
\* asset rows besides Asset1..Asset3: a short text that is part of a
\* candidate, and an empty os_version cell
Asset4 ==
    [id |-> 4,
     os_version |-> Txt(<<"L","i","n","u","x">>),
     applications |-> Txt(<<"S","Q","L">>),
     is_public |-> Txt(<<"N">>),
     business_criticality |-> Txt(<<"L","o","w">>),
     data_sensitivity |-> Txt(<<"L","o","w">>)]
Asset5 ==
    [id |-> 5,
     os_version |-> Txt(<<>>),
     applications |-> Txt(<<"n","g","i","n","x">>),
     is_public |-> Txt(<<"N">>),
     business_criticality |-> Txt(<<"L","o","w">>),
     data_sensitivity |-> Txt(<<"L","o","w">>)]

ProbeInventories == {{}, {Asset1, Asset2}, {Asset2, Asset3}, {Asset1, Asset4}, {Asset4, Asset5}}

\* a cve object of the NVD shape with one cpeMatch criteria
CveWith(criteria) ==
    ObjectJson("cve" :> [t |-> "obj", criteria |-> <<criteria>>, descriptions |-> <<>>])

\* payloads: none, undecodable, a number, the three feed shapes,
\* decodable payloads of an unexpected shape, and a field of blanks
ProbePayloads ==
    {NoPayload, InvalidJson, ScalarJson, ObjectJson(<<>>),
     FeedItems[1].raw_data, FeedItems[3].raw_data,
     ObjectJson("vulnerabilityName" :> JNum(5)),
     ObjectJson("vulnerabilityName" :> JNull),
     ObjectJson("vulnerabilityName" :> JStr(<<" ", " ">>)),
     ObjectJson("cve" :> JNum(5)),
     ObjectJson("cve" :> JStr(<<"x">>)),
     ObjectJson("summary" :> JNum(5)),
     CveWith(JStr(<<"c","p","e",":","2",".","3",":","a">>)),
     CveWith(JStr(<<"c","p","e",":","2",".","3",":","a",":","v","m","w","a","r","e">>)),
     CveWith(JStr(<<"c","p","e",":","2",".","3",":","a",":","v","m","w","a","r","e",":","e","s","x","i">>)),
     CveWith(JNum(7)),
     ObjectJson("cve" :> [t |-> "obj", criteria |-> <<>>,
                          descriptions |-> <<[lang |-> Txt(<<"e","n">>), value |-> JNum(5)]>>])}

ProbeTitles == {NullTxt, Txt(<<"n","o","t","e">>), Txt(<<"N","V","D",":"," ","m","s","s","q","l">>), Txt(<<"V","M","w","a","r","e"," ","E","S","X","i"," ","R","C","E">>)}

ProbeIntel ==
    {[id |-> 1, source |-> "NVD", type |-> t_CVE, cve_id |-> "CVE-1", title |-> t,
      cvss_score |-> CvssNone, raw_data |-> r] : t \in ProbeTitles, r \in ProbePayloads}

\* cvss_score as calculate_risk_score gets it: None, NaN, '', a text, and
\* numbers in tenths
ProbeCvss ==
    {CvssNone, CvssNaN, CvssEmpty, CvssText,
     Cvss(-10), Cvss(0), Cvss(40), Cvss(50), Cvss(65), Cvss(98), Cvss(100), Cvss(101)}

ProbeSources == {"NVD", "CISA_KEV"}

\* asset rows with every combination of the four asset conditions, and a
\* row with a NULL is_public cell
ProbeScoreAssets ==
    {[id |-> 1, os_version |-> o, applications |-> Txt(<<"n","g","i","n","x">>), is_public |-> p,
      business_criticality |-> c, data_sensitivity |-> d] :
        o \in {Txt(<<"W","i","n","d","o","w","s"," ","S","e","r","v","e","r"," ","2","0","0","8">>), Txt(<<"V","M","w","a","r","e"," ","E","S","X","i"," ","7",".","0">>)},
        p \in {Txt(<<"Y">>), Txt(<<"N">>)},
        c \in {Txt(<<"H","i","g","h">>), Txt(<<"M","e","d","i","u","m">>)},
        d \in {Txt(<<"H","i","g","h">>), Txt(<<"L","o","w">>)}}
    \cup {Asset3}

\* get_smtp_password ---------------------------------------------------
\* a password value: text, None, a reference ${var}, or an ENCRYPTED:
\* string. The cipher is not computed: an ENCRYPTED: string carries the
\* text it was made from, whether it has its four parts, and the key
Str(x) == [k |-> "str", s |-> x]
PwNone == [k |-> "none"]
Ref(v) == [k |-> "ref", var |-> v]
Enc(x, wellformed, key) == [k |-> "enc", plain |-> x, wellformed |-> wellformed, key |-> key]

\* an environment variable that is not set
Unset == [k |-> "unset"]

\* decrypt_password: ValueError when the string has not four parts, when
\* no key is configured, and when the key does not open the cipher text
decrypt_password(env, encrypted_str) ==
    IF /\ encrypted_str.wellformed
       /\ env["AETIM_ENCRYPTION_KEY"] # Unset
       /\ env["AETIM_ENCRYPTION_KEY"].s = encrypted_str.key
    THEN [raised |-> FALSE, value |-> Str(encrypted_str.plain)]
    ELSE [raised |-> TRUE, value |-> PwNone]

\* os.path.expandvars on a text ${var}: the value of a set variable, the
\* text itself otherwise
expandvars(env, config_value) ==
    IF env[config_value.var] # Unset THEN env[config_value.var] ELSE config_value

\* variant: a failed decryption leaves the function as an exception
get_smtp_password_raise(env, config_value) ==
    LET env_password == env["EMAIL_PASSWORD"]
    IN  IF env_password # Unset /\ env_password.s # ""
        THEN [raised |-> FALSE, value |-> env_password]
        ELSE IF config_value.k = "enc"
        THEN decrypt_password(env, config_value)
        ELSE IF config_value.k = "ref" /\ expandvars(env, config_value) # config_value
        THEN [raised |-> FALSE, value |-> expandvars(env, config_value)]
        ELSE [raised |-> FALSE, value |-> config_value]

get_smtp_password(env, config_value) ==
    LET env_password == env["EMAIL_PASSWORD"]
    IN  IF env_password # Unset /\ env_password.s # ""
        THEN [raised |-> FALSE, value |-> env_password]
        ELSE IF config_value.k = "enc"
        THEN IF decrypt_password(env, config_value).raised
             THEN [raised |-> FALSE, value |-> config_value]
             ELSE decrypt_password(env, config_value)
        ELSE IF config_value.k = "ref" /\ expandvars(env, config_value) # config_value
        THEN [raised |-> FALSE, value |-> expandvars(env, config_value)]
        ELSE [raised |-> FALSE, value |-> config_value]

EnvVars == {"EMAIL_PASSWORD", "SMTP_PW", "AETIM_ENCRYPTION_KEY"}

ProbeEnvs ==
    {e \in [EnvVars -> {Unset, Str(""), Str("env_password"), Str("key1")}] :
        /\ e["EMAIL_PASSWORD"] # Str("key1")
        /\ e["SMTP_PW"] \in {Unset, Str("env_password")}
        /\ e["AETIM_ENCRYPTION_KEY"] \in {Unset, Str("key1")}}

ProbePasswords ==
    {PwNone, Str(""), Str("plain_password"), Str("your_password"),
     Ref("EMAIL_PASSWORD"), Ref("SMTP_PW"),
     Enc("encrypted_password", TRUE, "key1"),
     Enc("encrypted_password", TRUE, "key2"),
     Enc("encrypted_password", FALSE, "key1")}

\* GET /api/config ---------------------------------------------------
p_ENCRYPTED == <<"E","N","C","R","Y","P","T","E","D",":">>
p_ref == <<"$","{">>

\* the text the response carries for a hidden password
Masked == <<"*","*","*">>

\* str.startswith
StartsWith(s, prefix) ==
    /\ Len(s) >= Len(prefix)
    /\ SubSeq(s, 1, Len(prefix)) = prefix

\* the characters of the texts used as passwords and variable names
Spell(x) ==
    CASE x = "pw1" -> <<"p","w","1">>
      [] x = "pw2" -> <<"p","w","2">>
      [] x = "${pw" -> <<"$","{","p","w">>
      [] x = "EMAIL_PASSWORD" -> <<"E","M","A","I","L","_","P","A","S","S","W","O","R","D">>
      [] x = "SMTP_PW" -> <<"S","M","T","P","_","P","W">>
      [] OTHER -> <<>>

\* a password value as a Python str: a reference is ${var}; the cipher
\* text of an ENCRYPTED: string is not computed and is written ct
PasswordText(v) ==
    CASE v.k = "str" -> Spell(v.s)
      [] v.k = "ref" -> p_ref \o Spell(v.var) \o <<"}">>
      [] v.k = "enc" -> p_ENCRYPTED \o <<"c","t">>
      [] OTHER -> <<>>

\* load_config: os.path.expandvars on the text of the file, then
\* get_smtp_password on the smtp_password the YAML holds (an empty
\* scalar is None)
load_config(env, stored) ==
    LET expanded == IF stored.k = "ref" THEN expandvars(env, stored) ELSE stored
        loaded == IF expanded = Str("") THEN PwNone ELSE expanded
    IN  get_smtp_password(env, loaded).value

\* the smtp_password of the response of GET /api/config
get_config(env, stored) ==
    LET password_value == load_config(env, stored)
    IN  IF password_value.k = "none" THEN Masked
        ELSE IF StartsWith(PasswordText(password_value), p_ENCRYPTED)
        THEN PasswordText(password_value)
        ELSE IF StartsWith(PasswordText(password_value), p_ref)
        THEN PasswordText(password_value)
        ELSE Masked

\* plain passwords: two ordinary ones and one that begins with ${
Plaintexts == {"pw1", "pw2", "${pw"}

ConfigEnvs ==
    {e \in [EnvVars -> {Unset, Str("key1")} \cup {Str(x) : x \in Plaintexts}] :
        /\ e["EMAIL_PASSWORD"] # Str("key1")
        /\ e["SMTP_PW"] \in {Unset, Str("pw1")}
        /\ e["AETIM_ENCRYPTION_KEY"] \in {Unset, Str("key1")}}

\* what config.yaml holds under notification.email.smtp_password
StoredPasswords ==
    {PwNone, Ref("EMAIL_PASSWORD"), Ref("SMTP_PW"),
     Enc("pw1", TRUE, "key1"), Enc("${pw", TRUE, "key1"), Enc("pw1", FALSE, "key1")}
    \cup {Str(x) : x \in Plaintexts}

\* the weekly schedule -------------------------------------------------
\* the names of the days; VALID_DAYS holds their first three letters
FullDays ==
    {<<"m","o","n","d","a","y">>,
     <<"t","u","e","s","d","a","y">>,
     <<"w","e","d","n","e","s","d","a","y">>,
     <<"t","h","u","r","s","d","a","y">>,
     <<"f","r","i","d","a","y">>,
     <<"s","a","t","u","r","d","a","y">>,
     <<"s","u","n","d","a","y">>}

VALID_DAYS == {SubSeq(d, 1, 3) : d \in FullDays}

\* the dict day_map: a full name or a short name gives the short name
day_map(x) == IF x \in FullDays \cup VALID_DAYS THEN SubSeq(x, 1, 3) ELSE <<>>

\* values of the YAML file: a key that is missing, null, a text, an
\* integer, a boolean (an int for isinstance) and a mapping
YMissing == [t |-> "missing", s |-> <<>>, n |-> 0]
YNull == [t |-> "null", s |-> <<>>, n |-> 0]
YStr(x) == [t |-> "str", s |-> x, n |-> 0]
YInt(i) == [t |-> "int", s |-> <<>>, n |-> i]
YBool(b) == [t |-> "bool", s |-> <<>>, n |-> IF b THEN 1 ELSE 0]

\* str(x) of a scalar
YText(v) ==
    CASE v.t = "str" -> v.s
      [] v.t = "null" -> <<"N","o","n","e">>
      [] v.t = "int" /\ v.n \in 0..9 -> <<DigitChars[v.n + 1]>>
      [] v.t = "bool" -> IF v.n = 1 THEN <<"T","r","u","e">> ELSE <<"F","a","l","s","e">>
      [] OTHER -> <<>>

Schedule(day, hour, minute) == [day |-> day, hour |-> hour, minute |-> minute]

DefaultSchedule == Schedule(<<"m","o","n">>, 8, 0)

\* no schedule
NoSchedule == Schedule(<<>>, 0, 0)

RECURSIVE SplitBlank(_)
\* str.strip().split(): the parts between the runs of blanks
SplitBlank(s) ==
    LET t == Strip(s)
    IN  IF t = <<>> THEN <<>>
        ELSE IF \A k \in 1..Len(t) : t[k] # " " THEN <<t>>
        ELSE LET p == CHOOSE k \in 1..Len(t) :
                         t[k] = " " /\ \A j \in 1..(k - 1) : t[j] # " "
             IN  <<SubSeq(t, 1, p - 1)>> \o SplitBlank(SubSeq(t, p + 1, Len(t)))

RECURSIVE DigitsValue(_)
DigitsValue(ds) ==
    IF ds = <<>> THEN 0
    ELSE 10 * DigitsValue(SubSeq(ds, 1, Len(ds) - 1))
           + (CHOOSE k \in 1..10 : DigitChars[k] = ds[Len(ds)]) - 1

\* int(text): an optional sign and decimal digits, ValueError otherwise
ParseInt(x) ==
    LET signed == x # <<>> /\ x[1] \in {"+", "-"}
        ds == IF signed THEN Tail(x) ELSE x
        ok == ds # <<>> /\ \A k \in 1..Len(ds) : \E d \in 1..10 : DigitChars[d] = ds[k]
    IN  IF ~ok THEN [ok |-> FALSE, n |-> 0]
        ELSE [ok |-> TRUE,
              n |-> IF signed /\ x[1] = "-" THEN 0 - DigitsValue(ds) ELSE DigitsValue(ds)]

\* the branch of the old text "monday 08:00": NoSchedule when it does not
\* return
LegacySchedule(legacy) ==
    LET parts == SplitBlank(legacy.s)
        d == day_map(Lower(parts[1]))
        hm == SplitColon(parts[2])
        h == ParseInt(hm[1])
        m == ParseInt(hm[2])
    IN  IF legacy.t # "str" \/ Len(parts) # 2 THEN NoSchedule
        ELSE IF d = <<>> THEN NoSchedule
        ELSE IF Len(hm) # 2 THEN NoSchedule
        ELSE IF ~h.ok \/ ~m.ok THEN NoSchedule
        ELSE IF h.n \in 0..23 /\ m.n \in 0..59 THEN Schedule(d, h.n, m.n)
        ELSE NoSchedule

\* get_weekly_schedule_from_config. weekly is config['reporting']
\* ['weekly_report']; .get on a value that is not a mapping raises
\* AttributeError, which the outer handler turns into the default
get_weekly_schedule_from_config(weekly) ==
    LET isMap(v) == v.t = "map"
        schedule_struct == IF weekly.t = "map" THEN weekly.schedule_struct ELSE YMissing
        attributeError ==
            \/ weekly.t \notin {"missing", "map"}
            \/ schedule_struct.t \notin {"missing", "map"}
        day == IF isMap(schedule_struct)
               THEN Lower(YText(schedule_struct.day_of_week)) ELSE <<>>
        hour == IF isMap(schedule_struct) THEN schedule_struct.hour ELSE YNull
        minute == IF isMap(schedule_struct) THEN schedule_struct.minute ELSE YNull
        isInt(v) == v.t \in {"int", "bool"}
        legacy == IF weekly.t = "map" THEN weekly.schedule ELSE YNull
    IN  IF attributeError THEN [raised |-> FALSE, schedule |-> DefaultSchedule]
        ELSE IF /\ day \in VALID_DAYS
                /\ isInt(hour) /\ hour.n \in 0..23
                /\ isInt(minute) /\ minute.n \in 0..59
        THEN [raised |-> FALSE, schedule |-> Schedule(day, hour.n, minute.n)]
        ELSE IF LegacySchedule(legacy) # NoSchedule
        THEN [raised |-> FALSE, schedule |-> LegacySchedule(legacy)]
        ELSE [raised |-> FALSE, schedule |-> DefaultSchedule]

\* schedule_struct values: missing, null, and mappings with days, hours
\* and minutes inside and outside their ranges
ScheduleStructs ==
    {YMissing, YNull}
    \cup {[t |-> "map", day_of_week |-> d, hour |-> h, minute |-> m] :
             d \in {YMissing, YStr(<<"w","e","d">>), YStr(<<"W","E","D">>),
                    YStr(<<"w","e","d","n","e","s","d","a","y">>)},
             h \in {YNull, YInt(-1), YInt(0), YInt(23), YInt(24), YStr(<<"9">>), YBool(TRUE)},
             m \in {YNull, YInt(0), YInt(59), YInt(60)}}

\* the old texts, each with the schedule it denotes when it is well formed
LegacyTexts ==
    {[s |-> <<"f","r","i","d","a","y"," ","1","7",":","3","0">>, denotes |-> Schedule(<<"f","r","i">>, 17, 30)],
     [s |-> <<"F","r","i"," ","7",":","5">>, denotes |-> Schedule(<<"f","r","i">>, 7, 5)],
     [s |-> <<" "," ","s","u","n","d","a","y"," "," "," ","2","3",":","5","9"," ">>, denotes |-> Schedule(<<"s","u","n">>, 23, 59)],
     [s |-> <<"f","r","i","d","a","y"," ","2","4",":","0","0">>, denotes |-> NoSchedule],
     [s |-> <<"f","r","i","d","a","y"," ","1","7",":","6","0">>, denotes |-> NoSchedule],
     [s |-> <<"f","r","i","d","a","y"," ","1","7","3","0">>, denotes |-> NoSchedule],
     [s |-> <<"f","r","i","d","a","y">>, denotes |-> NoSchedule],
     [s |-> <<"f","r","i","d","a","y"," ","1","7",":","3","0"," ","x">>, denotes |-> NoSchedule],
     [s |-> <<"s","o","m","e","d","a","y"," ","0","8",":","0","0">>, denotes |-> NoSchedule],
     [s |-> <<"f","r","i","d","a","y"," ","a",":","b">>, denotes |-> NoSchedule],
     [s |-> <<"f","r","i","d","a","y"," ","1",":","2",":","3">>, denotes |-> NoSchedule],
     [s |-> <<"f","r","i","d","a","y"," ","-","1",":","3","0">>, denotes |-> NoSchedule]}

LegacyValues == {YMissing, YInt(8)} \cup {YStr(x.s) : x \in LegacyTexts}

\* config['reporting']['weekly_report']
WeeklyConfigs ==
    {YMissing, YNull}
    \cup {[t |-> "map", schedule_struct |-> st, schedule |-> lg] :
             st \in ScheduleStructs, lg \in LegacyValues}

\* the calls ----------------------------------------------------------
Call(fn, args) == [fn |-> fn, args |-> args, done |-> FALSE]

ProbeCalls ==
    {Call("extract", [intel |-> i]) : i \in ProbeIntel}
    \cup {Call("match", [intel |-> i, assets |-> a]) : i \in ProbeIntel, a \in ProbeInventories}
    \cup {Call("score", [intel |-> [cvss_score |-> c, source |-> src], asset |-> a]) :
             c \in ProbeCvss, src \in ProbeSources, a \in ProbeScoreAssets}
    \cup {Call("password", [env |-> e, config_value |-> v]) : e \in ProbeEnvs, v \in ProbePasswords}
    \cup {Call("config", [env |-> e, stored |-> v]) : e \in ConfigEnvs, v \in StoredPasswords}
    \cup {Call("schedule", [weekly |-> w]) : w \in WeeklyConfigs}

InitPure ==
    /\ T_Assets = {}
    /\ T_Raw_Intel = <<>>
    /\ T_Validated_Threats = <<>>
    /\ config = [enabled |-> FALSE, critical |-> Missing]
    /\ now = 0
    /\ task_lock = FALSE
    /\ task_status = "idle"
    /\ pc = "idle"
    /\ df_new_intel = {}
    /\ validated_threats = <<>>
    /\ processed_intel_ids = <<>>
    /\ tx = NoTx
    /\ hist = NoHist
    /\ notification = DefaultNotification
    /\ tz = 0
    /\ outbox = NoDispatch
    /\ job_log = <<>>
    /\ probe \in ProbeCalls
    /\ web = NoWeb
    /\ sched = NoSched
    /\ cron = NoCron
    /\ send = NoSend

PureFrame ==
    UNCHANGED <<T_Assets, T_Raw_Intel, T_Validated_Threats, config, now, task_lock,
                task_status, pc, df_new_intel, validated_threats,
                processed_intel_ids, tx, hist, notification, tz, outbox, job_log,
                web, sched, send, cron>>

Apply(out) ==
    /\ ~probe.done
    /\ probe' = [fn |-> probe.fn, args |-> probe.args, done |-> TRUE, out |-> out]
    /\ PureFrame

call_extract ==
    /\ probe.fn = "extract"
    /\ Apply(extract_product_name_from_intel(probe.args.intel))

call_match ==
    /\ probe.fn = "match"
    /\ Apply(match_cve_with_assets(probe.args.intel, probe.args.assets))

call_score ==
    /\ probe.fn = "score"
    /\ Apply(calculate_risk_score(probe.args.intel, probe.args.asset))

call_password ==
    /\ probe.fn = "password"
    /\ Apply(get_smtp_password(probe.args.env, probe.args.config_value))

call_config ==
    /\ probe.fn = "config"
    /\ Apply(get_config(probe.args.env, probe.args.stored))

call_schedule ==
    /\ probe.fn = "schedule"
    /\ Apply(get_weekly_schedule_from_config(probe.args.weekly))

NextPure ==
    \/ call_extract
    \/ call_match
    \/ call_score
    \/ call_password
    \/ call_config
    \/ call_schedule

SpecPure == InitPure /\ [][NextPure]_vars

\* ------------------------------------------- claims on the pure functions
\* a finished call of the function
Called(fn) == probe.fn = fn /\ probe.done

\* the candidates of the intel record of a matcher call
Candidates == extract_product_name_from_intel(probe.args.intel)

\* C21: when the candidate set of the intel record is empty,
\* match_cve_with_assets returns the empty list, whatever the asset list,
\* and has gone through no asset row
C21_EmptyCandidates ==
    (Called("match") /\ ~Candidates.raised /\ Candidates.names = {}) =>
        /\ ~probe.out.raised
        /\ probe.out.list = <<>>
        /\ probe.out.compared = {}

\* a call with no candidate and a non-empty asset list
C21_Witness ==
    /\ Called("match")
    /\ ~Candidates.raised
    /\ Candidates.names = {}
    /\ probe.args.assets # {}
    /\ probe.out.list = <<>>

\* the number of times id a is in the returned list
TimesIn(a, list) == Cardinality({k \in 1..Len(list) : list[k] = a})

\* the words of C22: the lowercased text of a cell holds a candidate or is
\* part of a candidate
CellMatches(cell, names) ==
    /\ ~cell.null
    /\ \E c \in names : IsSubstr(c, Lower(cell.s)) \/ IsSubstr(Lower(cell.s), c)

\* the candidates a cell matches
MatchingCandidates(a, names) ==
    {c \in names : \/ CellMatches(a.os_version, {c})
                   \/ CellMatches(a.applications, {c})}

\* C22: match_cve_with_assets returns every asset id at most once, and
\* exactly once for an asset whose lowercased os_version or applications
\* text contains a candidate or is contained in one, however many
\* candidates match it
C22_OncePerAsset ==
    (Called("match") /\ ~probe.out.raised) =>
        \A a \in probe.args.assets :
            /\ TimesIn(a.id, probe.out.list) <= 1
            /\ MatchingCandidates(a, Candidates.names) # {}
                  => TimesIn(a.id, probe.out.list) = 1

\* a call in which one asset is matched by two candidates or more, and
\* one asset only because its text is part of a candidate
C22_Witness ==
    /\ Called("match")
    /\ ~probe.out.raised
    /\ \E a \in probe.args.assets :
          /\ Cardinality(MatchingCandidates(a, Candidates.names)) >= 2
          /\ TimesIn(a.id, probe.out.list) = 1
    /\ \E a \in probe.args.assets :
          /\ ~AssetMatches_oneWay(a, Candidates.names)
          /\ TimesIn(a.id, probe.out.list) = 1

\* C23: extract_product_name_from_intel raises for no payload: it returns
\* a list for a payload that is no valid JSON and for valid JSON of an
\* unexpected shape
C23_Original == Called("extract") => ~probe.out.raised

\* no multiplier condition of the words of C24 to C26 holds
CondPublic(a) == ~a.is_public.null /\ Upper(a.is_public.s) = <<"Y">>
CondCriticality(a) == ~a.business_criticality.null /\ Upper(a.business_criticality.s) \in HighWords
CondCatalog(i) == i.source = "CISA_KEV"
CondEndOfLife(a) ==
    \/ IsSubstr(s_2008, Lower(StrOf(a.os_version)))
    \/ IsSubstr(s_2008, Lower(StrOf(a.applications)))
CondSensitivity(a) == ~a.data_sensitivity.null /\ Upper(a.data_sensitivity.s) \in HighWords

\* the base of the words of C24: the CVSS score when it is a number in
\* (0, 10], and 7.0 in every other case; in millionths
ReferenceBase(cvss_score) ==
    IF cvss_score.k = "num" /\ cvss_score.tenths > 0 /\ cvss_score.tenths <= 100
    THEN cvss_score.tenths * (Micro \div 10)
    ELSE 7 * Micro

\* C24: with no multiplier condition true the score is the CVSS score when
\* that is a number in (0, 10], and 7.00 in every other case, a NULL cell
\* as the pass reads it included
C24_Original ==
    (/\ Called("score")
     /\ ~probe.out.raised
     /\ ~CondPublic(probe.args.asset)
     /\ ~CondCriticality(probe.args.asset)
     /\ ~CondCatalog(probe.args.intel)
     /\ ~CondEndOfLife(probe.args.asset)
     /\ ~CondSensitivity(probe.args.asset)) =>
        probe.out.score = Round2(ReferenceBase(probe.args.intel.cvss_score))

\* the five conditions, and the arguments with one more condition true
Conditions == {"public", "criticality", "catalog", "end_of_life", "sensitivity"}

Holds(c, args) ==
    CASE c = "public" -> CondPublic(args.asset)
      [] c = "criticality" -> CondCriticality(args.asset)
      [] c = "catalog" -> CondCatalog(args.intel)
      [] c = "end_of_life" -> CondEndOfLife(args.asset)
      [] c = "sensitivity" -> CondSensitivity(args.asset)

With(c, args) ==
    CASE c = "public" -> [args EXCEPT !.asset.is_public = Txt(<<"Y">>)]
      [] c = "criticality" ->
            [args EXCEPT !.asset.business_criticality = Txt(<<"H","i","g","h">>)]
      [] c = "catalog" -> [args EXCEPT !.intel.source = "CISA_KEV"]
      [] c = "end_of_life" ->
            [args EXCEPT !.asset.applications = Txt(<<"I","I","S"," ","2","0","0","8">>)]
      [] c = "sensitivity" ->
            [args EXCEPT !.asset.data_sensitivity = Txt(<<"H","i","g","h">>)]

\* C25: a returned score is at most 10.0, and with one more multiplier
\* condition true and everything else equal the score is not lower
C25_BoundedMonotone ==
    (Called("score") /\ ~probe.out.raised) =>
        /\ probe.out.score <= 1000
        /\ \A c \in Conditions :
              ~Holds(c, probe.args) =>
                  LET more == calculate_risk_score(With(c, probe.args).intel,
                                                   With(c, probe.args).asset)
                  IN  ~more.raised /\ more.score >= probe.out.score

\* a score of 5.00 with no condition true, which high data sensitivity
\* raises to 5.50 and all five conditions to the clamp of 10.00
C25_Witness ==
    /\ Called("score")
    /\ probe.args.intel.cvss_score = Cvss(50)
    /\ \A c \in Conditions : ~Holds(c, probe.args)
    /\ probe.out.score = 500
    /\ calculate_risk_score(With("sensitivity", probe.args).intel,
                            With("sensitivity", probe.args).asset).score = 550
    /\ \E a \in ProbeScoreAssets :
          /\ \A c \in Conditions \ {"catalog"} : Holds(c, [probe.args EXCEPT !.asset = a])
          /\ calculate_risk_score(With("catalog", probe.args).intel, a).score = 1000

\* the reference of C26: the base times 1.5, 1.3, 2.0, 1.2, 1.1 for the
\* conditions that hold, clamped once to 10.0, rounded to 2 decimals; the
\* factors in tenths, the value in millionths
Factor(c) ==
    CASE c = "public" -> 15
      [] c = "criticality" -> 13
      [] c = "catalog" -> 20
      [] c = "end_of_life" -> 12
      [] c = "sensitivity" -> 11

ConditionOrder == <<"public", "criticality", "catalog", "end_of_life", "sensitivity">>

RECURSIVE Running(_, _, _)

Running(value, k, args) ==
    IF k > Len(ConditionOrder) THEN value
    ELSE Running(IF Holds(ConditionOrder[k], args)
                 THEN (value * Factor(ConditionOrder[k])) \div 10 ELSE value,
                 k + 1, args)

Reference(args) ==
    LET product == Running(ReferenceBase(args.intel.cvss_score), 1, args)
    IN  Round2(IF product > 10 * Micro THEN 10 * Micro ELSE product)

EnvPasswordSet == 
    /\ probe.args.env["EMAIL_PASSWORD"] # Unset
    /\ probe.args.env["EMAIL_PASSWORD"].s # ""

\* C30 as stated: EMAIL_PASSWORD when set and non-empty; otherwise an
\* ENCRYPTED: value decrypted; otherwise a ${...} reference expanded;
\* otherwise the configured value; and the function never raises
C30_Original ==
    Called("password") =>
        /\ ~probe.out.raised
        /\ probe.out.value =
              IF EnvPasswordSet THEN probe.args.env["EMAIL_PASSWORD"]
              ELSE IF probe.args.config_value.k = "enc"
              THEN Str(probe.args.config_value.plain)
              ELSE IF probe.args.config_value.k = "ref"
              THEN expandvars(probe.args.env, probe.args.config_value)
              ELSE probe.args.config_value

\* C30: EMAIL_PASSWORD when set and non-empty; otherwise an ENCRYPTED:
\* value decrypted when decrypt_password succeeds and unchanged when it
\* fails; otherwise a ${...} reference expanded; otherwise the configured
\* value; and the function never raises
C30_PriorityOrder ==
    Called("password") =>
        /\ ~probe.out.raised
        /\ probe.out.value =
              IF EnvPasswordSet THEN probe.args.env["EMAIL_PASSWORD"]
              ELSE IF probe.args.config_value.k = "enc"
              THEN IF decrypt_password(probe.args.env, probe.args.config_value).raised
                   THEN probe.args.config_value
                   ELSE Str(probe.args.config_value.plain)
              ELSE IF probe.args.config_value.k = "ref"
              THEN expandvars(probe.args.env, probe.args.config_value)
              ELSE probe.args.config_value

\* an ENCRYPTED: value that decrypt_password rejects comes back unchanged
C30_Witness ==
    /\ Called("password")
    /\ ~EnvPasswordSet
    /\ probe.args.config_value.k = "enc"
    /\ decrypt_password(probe.args.env, probe.args.config_value).raised
    /\ probe.out.value = probe.args.config_value

\* ------------------------------------------- the threads of the web process
\* the threads one run holds, the startup thread included
MaxThreads == 3

\* the handlers that start a background thread
Handlers == {"trigger_collectors", "trigger_correlation", "trigger_all",
             "generate_report", "send_notification"}

\* what a request carries: the type, and whether the recipients it names
\* have an address in the configuration (send_notification only)
NoRequestData == [type |-> "none", recipients |-> FALSE]

Payloads(kind) ==
    CASE kind = "generate_report" ->
            {[type |-> t, recipients |-> FALSE] :
                t \in {"ciso_weekly", "it_ticket", "other"}}
      [] kind = "send_notification" ->
            {[type |-> t, recipients |-> r] :
                t \in {"weekly_report", "critical"}, r \in BOOLEAN}
      [] OTHER -> {NoRequestData}

\* threading.Thread(target=...) after start(): it has not entered its body
Started(kind, payload) == [kind |-> kind, at |-> "waiting", payload |-> payload]

\* the first statements of a body: the entries it sets to 'running'
SetRunning(thread, status) ==
    CASE thread.kind \in {"trigger_collectors", "startup"} ->
            [status EXCEPT !["collectors"] = "running"]
      [] thread.kind = "trigger_correlation" ->
            [status EXCEPT !["correlation"] = "running"]
      [] thread.kind = "trigger_all" ->
            [status EXCEPT !["collectors"] = "running", !["correlation"] = "idle"]
      [] thread.kind = "generate_report" ->
            [status EXCEPT !["report_generation"] = "running"]
      [] thread.kind = "send_notification" ->
            [status EXCEPT !["notification"] = "running"]

\* the ways a body ends. "exit" is load_config() ending in sys.exit(1):
\* SystemExit is no Exception, so no handler of the body runs.
\* "fallthrough" is the end of the try block without a branch taken
Outcomes(thread) ==
    CASE thread.kind \in {"trigger_collectors", "trigger_correlation"} ->
            {"completed", "error", "exit"}
      [] thread.kind = "trigger_all" -> {"completed", "no_db", "error", "exit"}
      [] thread.kind = "startup" ->
            {"completed", "report_error", "no_db", "error", "exit"}
      [] thread.kind = "generate_report" ->
            IF thread.payload.type \in {"ciso_weekly", "it_ticket"}
            THEN {"completed", "error", "exit"} ELSE {"error", "exit"}
      [] thread.kind = "send_notification" ->
            IF ~thread.payload.recipients THEN {"error", "exit"}
            ELSE IF thread.payload.type = "weekly_report"
            THEN {"completed", "error", "exit"}
            ELSE {"fallthrough", "error", "exit"}

\* task_status when the body ends in outcome o
Finished(thread, o, status) ==
    IF o \in {"exit", "fallthrough"} THEN status
    ELSE CASE thread.kind = "trigger_collectors" ->
                 [status EXCEPT !["collectors"] = o]
           [] thread.kind = "trigger_correlation" ->
                 [status EXCEPT !["correlation"] = o]
           [] thread.kind = "trigger_all" ->
                 IF o = "no_db" THEN [status EXCEPT !["collectors"] = "error"]
                 ELSE [status EXCEPT !["collectors"] = o, !["correlation"] = o]
           [] thread.kind = "startup" ->
                 IF o = "no_db" THEN [status EXCEPT !["collectors"] = "error"]
                 ELSE IF o = "report_error"
                 THEN [status EXCEPT !["collectors"] = "completed",
                                     !["correlation"] = "completed",
                                     !["report_generation"] = "error"]
                 ELSE [status EXCEPT !["collectors"] = o, !["correlation"] = o,
                                     !["report_generation"] = o]
           [] thread.kind = "generate_report" ->
                 [status EXCEPT !["report_generation"] = o]
           [] thread.kind = "send_notification" ->
                 [status EXCEPT !["notification"] = o]

\* variant: the body is entered whatever the lock's state
CanEnter_always(lock) == TRUE

\* `with task_lock:` blocks until the lock is free
CanEnter(lock) == ~lock

\* task_lock.locked()
locked(lock) == lock

\* __main__: startup_tasks() starts its thread unless load_config() raised
InitWeb ==
    /\ T_Assets = {}
    /\ T_Raw_Intel = <<>>
    /\ T_Validated_Threats = <<>>
    /\ config = [enabled |-> FALSE, critical |-> Missing]
    /\ now = 0
    /\ task_lock = FALSE
    /\ task_status = "idle"
    /\ pc = "idle"
    /\ df_new_intel = {}
    /\ validated_threats = <<>>
    /\ processed_intel_ids = <<>>
    /\ tx = NoTx
    /\ hist = NoHist
    /\ notification = DefaultNotification
    /\ tz = 0
    /\ outbox = NoDispatch
    /\ job_log = <<>>
    /\ probe = NoProbe
    /\ web \in {[NoWeb EXCEPT !.threads = <<Started("startup", NoRequestData)>>],
                NoWeb}
    /\ sched = NoSched
    /\ cron = NoCron
    /\ send = NoSend

WebFrame ==
    UNCHANGED <<T_Assets, T_Raw_Intel, T_Validated_Threats, config, now,
                task_status, pc, df_new_intel, validated_threats,
                processed_intel_ids, tx, hist, notification, tz, outbox, job_log,
                probe, sched, send, cron>>

\* a POST to one of the handlers: 400 while the lock is held, else the
\* thread is started and the request is answered
request(kind, payload) ==
    /\ Len(web.threads) < MaxThreads
    /\ IF locked(task_lock)
       THEN web' = [web EXCEPT !.response = "400"]
       ELSE web' = [web EXCEPT !.threads = Append(web.threads, Started(kind, payload)),
                               !.response = "started"]
    /\ UNCHANGED task_lock
    /\ WebFrame

\* a started thread acquires the lock and enters its body
thread_enter(i) ==
    /\ web.threads[i].at = "waiting"
    /\ CanEnter(task_lock)
    /\ task_lock' = TRUE
    /\ web' = [web EXCEPT !.threads[i].at = "body",
                           !.status = SetRunning(web.threads[i], web.status)]
    /\ WebFrame

\* the body ends, by return or by an exception: the lock is released
thread_exit(i, o) ==
    /\ web.threads[i].at = "body"
    /\ o \in Outcomes(web.threads[i])
    /\ task_lock' = FALSE
    /\ web' = [web EXCEPT !.threads[i].at = "done",
                           !.status = Finished(web.threads[i], o, web.status)]
    /\ WebFrame

NextWeb ==
    \/ \E kind \in Handlers : \E payload \in Payloads(kind) : request(kind, payload)
    \/ \E i \in 1..Len(web.threads) : thread_enter(i)
    \/ \E i \in 1..Len(web.threads) :
          \E o \in Outcomes(web.threads[i]) : thread_exit(i, o)

SpecWeb == InitWeb /\ [][NextWeb]_vars

\* --------------------------------------------------- claim on the lock
InBody == {i \in 1..Len(web.threads) : web.threads[i].at = "body"}

\* C27: at no time do two of the background jobs of the web process
\* (the five handlers' threads and the startup thread) run their bodies
\* together, and the lock is held exactly while one of them does
C27_MutualExclusion ==
    /\ Cardinality(InBody) <= 1
    /\ task_lock <=> InBody # {}

\* two requests were both accepted; one thread runs, the other waits
C27_Witness ==
    \E i, j \in 1..Len(web.threads) :
        /\ web.threads[i].kind \in Handlers
        /\ web.threads[j].kind \in Handlers
        /\ web.threads[i].at = "body"
        /\ web.threads[j].at = "waiting"

\* ------------------------------- a scheduler process beside the web process
\* the inventories the two processes run on
TwoInventories == { {}, {Asset1, Asset2} }

\* INSERT INTO T_Validated_Threats: the table has no key but its id
Inserted_unique(table, rows) ==
    LET fresh == {k \in 1..Len(rows) :
                     /\ \A j \in 1..Len(table) :
                           \/ table[j].intel_id # rows[k].intel_id
                           \/ table[j].asset_id # rows[k].asset_id
                     /\ \A j \in 1..(k - 1) :
                           \/ rows[j].intel_id # rows[k].intel_id
                           \/ rows[j].asset_id # rows[k].asset_id}
    IN  table \o WithoutIndices(rows, (1..Len(rows)) \ fresh, 1)

Inserted(table, rows) == table \o rows

\* the other connection has uncommitted writes: it holds the write lock of
\* the database file
Busy(other) == other # NoTx

InitTwo ==
    /\ T_Assets \in TwoInventories
    /\ T_Raw_Intel = <<>>
    /\ T_Validated_Threats = <<>>
    /\ config = [enabled |-> FALSE, critical |-> Missing]
    /\ now = 0
    /\ task_lock = FALSE
    /\ task_status = "idle"
    /\ pc = "idle"
    /\ df_new_intel = {}
    /\ validated_threats = <<>>
    /\ processed_intel_ids = <<>>
    /\ tx = NoTx
    /\ hist = NoHist
    /\ notification = DefaultNotification
    /\ tz = 0
    /\ outbox = NoDispatch
    /\ job_log = <<>>
    /\ probe = NoProbe
    /\ web = NoWeb
    /\ sched = NoSched
    /\ cron = NoCron
    /\ send = NoSend

SchedFrame ==
    UNCHANGED <<T_Assets, config, now, task_lock, task_status, pc, df_new_intel,
                validated_threats, processed_intel_ids, tx, hist, notification,
                tz, outbox, job_log, probe, web, send, cron>>

\* the outer handler of the pass of the scheduler process
SchedAbort ==
    /\ sched' = [sched EXCEPT !.tx = NoTx, !.pc = "done", !.outcome = "aborted"]
    /\ UNCHANGED <<T_Raw_Intel, T_Validated_Threats>>

\* the interval job or the SIGUSR1 handler: the collectors insert the feed
\* items S they find new, then run_correlation_analysis is called. The
\* function takes no lock and does not look at the web process
run_all_collectors(S) ==
    /\ sched.pc = "idle"
    /\ Len(T_Raw_Intel) + Cardinality(S) <= MaxIntel
    /\ \A k \in S : ~is_intel_exists(FeedItems[k])
    /\ LET order == AscSeq(S)
           rows == [j \in 1..Len(order) |-> NewIntelRow(FeedItems[order[j]])]
       IN  T_Raw_Intel' = T_Raw_Intel \o rows
    /\ sched' = [NoSched EXCEPT !.pc = "load", !.outcome = "running"]
    /\ UNCHANGED T_Validated_Threats
    /\ SchedFrame

\* steps 1 and 2 in the scheduler process
sched_load ==
    /\ sched.pc = "load"
    /\ \/ SchedAbort
       \/ /\ T_Assets = {}
          /\ sched' = [sched EXCEPT !.pc = "done", !.outcome = "empty_assets"]
          /\ UNCHANGED <<T_Raw_Intel, T_Validated_Threats>>
       \/ /\ T_Assets # {}
          /\ NewIntelIds = {}
          /\ sched' = [sched EXCEPT !.pc = "done", !.outcome = "no_intel"]
          /\ UNCHANGED <<T_Raw_Intel, T_Validated_Threats>>
       \/ /\ T_Assets # {}
          /\ NewIntelIds # {}
          /\ sched' = [sched EXCEPT !.pc = "match", !.df_new_intel = NewIntelIds]
          /\ UNCHANGED <<T_Raw_Intel, T_Validated_Threats>>
    /\ SchedFrame

\* step 3 in the scheduler process
sched_match ==
    /\ sched.pc = "match"
    /\ \E o \in IterationOrders(sched.df_new_intel) :
          sched' = [sched EXCEPT
                       !.pc = "write",
                       !.validated_threats = ThreatsInOrder(o, sched.df_new_intel),
                       !.processed_intel_ids =
                           ProcessedInOrder(o, sched.df_new_intel, <<>>)]
    /\ UNCHANGED <<T_Raw_Intel, T_Validated_Threats>>
    /\ SchedFrame

\* step 4 in the scheduler process; while the web process holds the write
\* lock the INSERTs wait, or they all end in 'database is locked'
sched_write(F) ==
    /\ sched.pc = "write"
    /\ F \subseteq 1..Len(sched.validated_threats)
    /\ Busy(tx) => F = 1..Len(sched.validated_threats)
    /\ sched' = [sched EXCEPT
                    !.pc = "update",
                    !.writeFailed = F,
                    !.tx.threats =
                        WithoutIndices([k \in 1..Len(sched.validated_threats) |->
                            [intel_id |-> sched.validated_threats[k].intel_id,
                             asset_id |-> sched.validated_threats[k].asset_id,
                             risk_score |-> sched.validated_threats[k].risk_score,
                             status |-> sched.validated_threats[k].status,
                             timestamp |-> now]], F, 1)]
    /\ UNCHANGED <<T_Raw_Intel, T_Validated_Threats>>
    /\ SchedFrame

\* step 5 in the scheduler process
sched_update ==
    /\ sched.pc = "update"
    /\ \/ /\ ~Busy(tx)
          /\ sched' = [sched EXCEPT
                !.pc = "commit",
                !.tx.status =
                    [k \in 1..Len(sched.processed_intel_ids) |->
                        <<sched.processed_intel_ids[k],
                          IF \E j \in 1..Len(sched.validated_threats) :
                                sched.validated_threats[j].intel_id =
                                    sched.processed_intel_ids[k]
                          THEN "processed" ELSE LoggedNoMatch>>]]
          /\ UNCHANGED <<T_Raw_Intel, T_Validated_Threats>>
       \/ SchedAbort
    /\ SchedFrame

\* db_conn.commit() in the scheduler process
sched_commit ==
    /\ sched.pc = "commit"
    /\ T_Validated_Threats' = Inserted(T_Validated_Threats, sched.tx.threats)
    /\ T_Raw_Intel' = ApplyStatus(T_Raw_Intel, sched.tx.status)
    /\ sched' = [sched EXCEPT !.pc = "done", !.tx = NoTx, !.outcome = "committed"]
    /\ SchedFrame

\* the summary, the notifier and db_conn.close() in run_all_collectors
sched_return ==
    /\ sched.pc = "done"
    /\ sched' = NoSched
    /\ UNCHANGED <<T_Raw_Intel, T_Validated_Threats>>
    /\ SchedFrame

\* the pass of the web process beside the one of the scheduler process: its
\* INSERTs and UPDATEs meet the write lock of the other connection
NextTwo ==
    \/ trigger_correlation
    \/ \E S \in SUBSET (1..Len(FeedItems)) : trigger_all(S)
    \/ task_return
    \/ rca_load
    \/ rca_match
    \/ \E F \in SUBSET (1..Len(validated_threats)) :
          /\ Busy(sched.tx) => F = 1..Len(validated_threats)
          /\ rca_write(F)
    \/ /\ rca_update
       /\ Busy(sched.tx) => pc' = "return"
    \/ rca_commit
    \/ rca_notify
    \/ \E S \in SUBSET (1..Len(FeedItems)) : run_all_collectors(S)
    \/ sched_load
    \/ sched_match
    \/ \E F \in SUBSET (1..Len(sched.validated_threats)) : sched_write(F)
    \/ sched_update
    \/ sched_commit
    \/ sched_return

SpecTwo == InitTwo /\ [][NextTwo]_vars

\* ------------------------------------------- claim on the two processes
\* the pass of the web process has committed and not yet returned
WebCommitted ==
    /\ pc \in {"notify", "return"}
    /\ hist.outcome \in {"committed", "completed"}

\* the pass of the scheduler process has committed and not yet returned
SchedCommitted == sched.pc = "done" /\ sched.outcome = "committed"

\* the pass of the web process wrote a row for the pair
WebWrote(i, a) ==
    \E k \in 1..Len(validated_threats) :
        /\ k \notin hist.writeFailed
        /\ validated_threats[k].intel_id = i
        /\ validated_threats[k].asset_id = a

\* the pass of the scheduler process wrote a row for the pair
SchedWrote(i, a) ==
    \E k \in 1..Len(sched.validated_threats) :
        /\ k \notin sched.writeFailed
        /\ sched.validated_threats[k].intel_id = i
        /\ sched.validated_threats[k].asset_id = a

RowsFor(i, a) ==
    {k \in 1..Len(T_Validated_Threats) :
        /\ T_Validated_Threats[k].intel_id = i
        /\ T_Validated_Threats[k].asset_id = a}

\* C28: nothing keeps a pass of the scheduler process and a pass of the web
\* process apart: when both have read the same 'new' intel row and both
\* have committed a row for the same (intel, asset) pair, the table holds
\* both rows
C28_BothPersist ==
    (WebCommitted /\ SchedCommitted) =>
        \A i \in df_new_intel \cap sched.df_new_intel : \A a \in T_Assets :
            (WebWrote(i, a.id) /\ SchedWrote(i, a.id)) =>
                Cardinality(RowsFor(i, a.id)) >= 2

\* both passes read intel row i as 'new', both committed, and the table
\* holds two rows for one pair
C28_Witness ==
    /\ WebCommitted
    /\ SchedCommitted
    /\ \E i \in df_new_intel \cap sched.df_new_intel : \E a \in T_Assets :
          /\ WebWrote(i, a.id)
          /\ SchedWrote(i, a.id)
          /\ Cardinality(RowsFor(i, a.id)) = 2

\* --------------------------------------------- the operations ticket list
\* days of the weekly window
WeekDays == 7

\* risk_score from which a ticket is P0
PriorityP0 == 900

\* generate_it_ticket, as far as the list is concerned: the row the ticket
\* is for (its ticket_id is built from the row's id) and its priority
generate_it_ticket(k) ==
    [threat_id |-> k,
     priority |-> IF T_Validated_Threats[k].risk_score >= PriorityP0
                  THEN "P0" ELSE "P1"]

\* the tickets in the order of the query: the rows at or above the
\* threshold whose status is 'new' and whose intel and asset rows exist,
\* by descending score
generate_it_tickets_for_high_risk(risk_threshold) ==
    LET sel == {k \in 1..Len(T_Validated_Threats) :
                   /\ T_Validated_Threats[k].risk_score >= risk_threshold
                   /\ T_Validated_Threats[k].status = "new"
                   /\ T_Validated_Threats[k].intel_id \in IntelIds
                   /\ \E a \in T_Assets : a.id = T_Validated_Threats[k].asset_id}
    IN  [r \in 1..Cardinality(sel) |->
            generate_it_ticket(CHOOSE k \in sel : RankOf(k, sel) = r - 1)]

\* the time of the run: 10:00 UTC on the ninth day
WeekRunInstant == (WeekDays + 1) * DayHours + 10

\* scores below, at and above the default high threshold and at P0
WeekScores == {650, DefaultHigh, 858, PriorityP0}

\* rows of this hour, of three days ago and of more than seven days ago
WeekAges == {0, 3 * DayHours, WeekDays * DayHours + 1}

WeekTables ==
    UNION {{t \in [1..n -> [intel_id : {1}, asset_id : {2}, risk_score : WeekScores,
                            status : ThreatStatuses,
                            timestamp : {WeekRunInstant - a : a \in WeekAges}]] :
               \A i, j \in 1..n : i < j => t[i].timestamp <= t[j].timestamp} :
           n \in 0..MaxThreatRows}

InitTickets ==
    /\ T_Assets = {Asset1, Asset2}
    /\ T_Raw_Intel = <<[NewIntelRow(FeedItems[2]) EXCEPT !.status = "processed"]>>
    /\ T_Validated_Threats \in WeekTables
    /\ config = [enabled |-> TRUE, critical |-> Missing]
    /\ now = WeekRunInstant
    /\ task_lock = FALSE
    /\ task_status = "idle"
    /\ pc = "idle"
    /\ df_new_intel = {}
    /\ validated_threats = <<>>
    /\ processed_intel_ids = <<>>
    /\ tx = NoTx
    /\ hist = NoHist
    /\ notification \in {DefaultNotification, [DefaultNotification EXCEPT !.high = 800]}
    /\ tz = 0
    /\ outbox = NoDispatch
    /\ job_log = <<>>
    /\ probe = [fn |-> "tickets", args |-> [risk_threshold |-> TicketThreshold],
                done |-> FALSE]
    /\ web = NoWeb
    /\ sched = NoSched
    /\ cron = NoCron
    /\ send = NoSend

\* the call of the weekly job and of the test: risk_threshold is 7.0
call_tickets ==
    /\ probe.fn = "tickets"
    /\ Apply(generate_it_tickets_for_high_risk(probe.args.risk_threshold))

NextTickets == call_tickets

SpecTickets == InitTickets /\ [][NextTickets]_vars

\* -------------------------------------------------- claim on the tickets
\* the rows of the trailing seven days at or above the high threshold
DueForTicket ==
    {k \in 1..Len(T_Validated_Threats) :
        /\ T_Validated_Threats[k].risk_score >= HighThreshold(notification)
        /\ T_Validated_Threats[k].timestamp >= now - WeekDays * DayHours}

TicketsFor(k) == {r \in 1..Len(probe.out) : probe.out[r].threat_id = k}

\* C29: the ticket list holds exactly one ticket for each threat row of
\* the trailing seven days at or above the high threshold, and none for
\* any other row
C29_Original ==
    Called("tickets") =>
        \A k \in 1..Len(T_Validated_Threats) :
            Cardinality(TicketsFor(k)) = IF k \in DueForTicket THEN 1 ELSE 0

\* ------------------------------------------- claim on GET /api/config
\* the text is a reference ${...}
IsReference(t) == StartsWith(t, p_ref) /\ t[Len(t)] = "}"

\* the call with plain password x in the place of every plain password
WithPlaintext(args, x) ==
    [env |-> [v \in EnvVars |->
                 IF v # "AETIM_ENCRYPTION_KEY" /\ args.env[v] # Unset
                 THEN Str(x) ELSE args.env[v]],
     stored |-> IF args.stored.k = "str" THEN Str(x)
                ELSE IF args.stored.k = "enc"
                THEN [args.stored EXCEPT !.plain = x]
                ELSE args.stored]

\* C31: the smtp_password of the response is '***', an ENCRYPTED: string
\* or an unexpanded reference, is '***' whenever the loaded password is a
\* plain one, and is the same whatever the plain password
C31_Original ==
    Called("config") =>
        /\ \/ probe.out = Masked
           \/ StartsWith(probe.out, p_ENCRYPTED)
           \/ IsReference(probe.out)
        /\ load_config(probe.args.env, probe.args.stored).k = "str"
              => probe.out = Masked
        /\ \A x \in Plaintexts :
              get_config(WithPlaintext(probe.args, x).env,
                         WithPlaintext(probe.args, x).stored) = probe.out

\* ------------------------------------------- claim on the accepted jobs
\* the threads of accepted requests that have not left their body
Unfinished ==
    {i \in 1..Len(web.threads) :
        /\ web.threads[i].kind \in Handlers
        /\ web.threads[i].at # "done"}

\* C32: while an accepted job has not finished no request is accepted, so
\* no accepted job waits behind another: a request is answered 'started'
\* only when no thread of an accepted request is unfinished
C32_Original ==
    [][(web'.response = "started" /\ Len(web'.threads) > Len(web.threads))
          => Unfinished = {}]_vars

\* ------------------------------------------- claim on task_status
\* C33: whenever no background job holds task_lock, no entry of
\* task_status has status 'running'
C33_Original ==
    ~task_lock => \A e \in Entries : web.status[e] # "running"

\* ------------------------------------------------ the test-send request
\* POST /api/weekly-jobs/test-send, step by step: the event is started, the
\* reports directory is searched, and the request returns
SendFrame ==
    UNCHANGED <<T_Assets, T_Raw_Intel, T_Validated_Threats, config, now,
                task_lock, task_status, pc, df_new_intel, validated_threats,
                processed_intel_ids, tx, hist, notification, tz, outbox,
                probe, web, sched, cron>>

\* start_event, then the walk over the reports directory: found tells
\* whether a file of a CISO weekly report exists
test_send_weekly(found) ==
    /\ send.pc = "idle"
    /\ Cardinality(LogIds(job_log)) < MaxJobs
    /\ job_log' = start_event(job_log, [phase |-> "notify"])
    /\ send' = [pc |-> "searched", ev |-> FreshId(job_log), latest_report |-> found]
    /\ SendFrame

\* no report file: the request is answered with 400
test_send_no_report ==
    /\ send.pc = "searched"
    /\ ~send.latest_report
    /\ send' = NoSend
    /\ UNCHANGED job_log
    /\ SendFrame

\* notify_weekly_report returned or raised, and the event is updated
test_send_notify(raised) ==
    /\ send.pc = "searched"
    /\ send.latest_report
    /\ job_log' = update_event(job_log, send.ev,
                     IF raised
                     THEN [phase |-> "done", status |-> "error",
                           email_result |-> "error"]
                     ELSE [phase |-> "done", status |-> "success",
                           email_result |-> "success"])
    /\ send' = NoSend
    /\ SendFrame

\* the request runs to its return
test_send_return ==
    \/ test_send_no_report
    \/ \E raised \in BOOLEAN : test_send_notify(raised)

NextSend ==
    \/ \E found \in BOOLEAN : test_send_weekly(found)
    \/ test_send_no_report
    \/ \E raised \in BOOLEAN : test_send_notify(raised)
    \/ clock_hour

\* a request that was accepted is served to its end
SpecSend == InitEvents /\ [][NextSend]_vars /\ WF_vars(test_send_return)

\* the event carries a line that ends it
EventDone(i) ==
    \E k \in 1..Len(job_log) :
        /\ job_log[k].rec.id = i
        /\ job_log[k].rec.phase = "done"
        /\ job_log[k].rec.status \in {"success", "skipped", "error"}

\* C34: every event that start_event created is eventually followed by a
\* line of update_event for the same id with phase 'done' and a status of
\* success, skipped or error
C34_Original ==
    \A i \in 1..MaxJobs : (i \in LogIds(job_log)) ~> EventDone(i)

\* ------------------------------------- the weekly job and real delivery
\* the transport rejects every message the weekly job has to send
AllRejected ==
    LET due == ToSet(Messages("weekly", {}, WeeklyTargets))
    IN  due # {} /\ outbox.rejects = due

\* C35: when every send_email attempt of the weekly job fails at the
\* transport level, the final event of the job has status 'error' and
\* email_result 'error'
C35_Original ==
    (WeeklyJobRan /\ HasAddress(notification.smtp_server) /\ AllRejected) =>
        /\ job_log # <<>>
        /\ FinalEvent.status = "error"
        /\ FinalEvent.email_result = "error"

\* ------------------------------------------- status and persisted rows
\* C36: after a completed pass, a record that was 'new' at its start has
\* status 'processed' exactly when a threat row that references it is
\* persisted
C36_Original ==
    PassCommitted =>
        \A i \in hist.startNew :
            (T_Raw_Intel[i].status = "processed")
                <=> RowsOfIntel(T_Validated_Threats, i) # {}

\* ------------------------------------------- matches through an empty string
\* the asset is matched by a candidate and a text that are both non-empty
MatchedOnText(asset, product_names) ==
    LET os_version == Lower(StrOf(asset.os_version))
        applications == Lower(StrOf(asset.applications))
    IN  \E product_name \in product_names :
            /\ product_name # <<>>
            /\ \/ IsSubstr(product_name, os_version)
               \/ IsSubstr(product_name, applications)
               \/ os_version # <<>> /\ IsSubstr(os_version, product_name)
               \/ applications # <<>> /\ IsSubstr(applications, product_name)

\* C37: the extractor returns no empty candidate, and every asset the
\* matcher returns is matched by a non-empty candidate and a non-empty
\* os_version or applications text
C37_Original ==
    /\ (probe.fn = "extract" /\ probe.done /\ ~probe.out.raised)
          => <<>> \notin probe.out.names
    /\ (probe.fn = "match" /\ probe.done /\ ~probe.out.raised) =>
          \A a \in probe.args.assets :
              a.id \in probe.out.ids =>
                  MatchedOnText(a, extract_product_name_from_intel(probe.args.intel).names)

\* ------------------------------------------------- the weekly schedule
ValidSchedule(x) ==
    x.day \in VALID_DAYS /\ x.hour \in 0..23 /\ x.minute \in 0..59

\* the schedule a valid schedule_struct holds, NoSchedule when the
\* configuration has none
GivenStruct(weekly) ==
    LET st == weekly.schedule_struct
    IN  IF /\ weekly.t = "map" /\ st.t = "map"
           /\ st.day_of_week.t = "str" /\ Lower(st.day_of_week.s) \in VALID_DAYS
           /\ st.hour.t \in {"int", "bool"} /\ st.hour.n \in 0..23
           /\ st.minute.t \in {"int", "bool"} /\ st.minute.n \in 0..59
        THEN Schedule(Lower(st.day_of_week.s), st.hour.n, st.minute.n)
        ELSE NoSchedule

\* the schedule a well-formed old text denotes, NoSchedule when the
\* configuration has none
DenotedLegacy(weekly) ==
    IF weekly.t = "map" /\ weekly.schedule.t = "str"
    THEN (CHOOSE x \in LegacyTexts : x.s = weekly.schedule.s).denotes
    ELSE NoSchedule

\* C38: get_weekly_schedule_from_config does not raise and returns a valid
\* schedule: the one of a valid schedule_struct, otherwise the one of a
\* well-formed old text, otherwise the default
C38_Original ==
    Called("schedule") =>
        LET w == probe.args.weekly
        IN  /\ ~probe.out.raised
            /\ ValidSchedule(probe.out.schedule)
            /\ probe.out.schedule =
                  IF GivenStruct(w) # NoSchedule THEN GivenStruct(w)
                  ELSE IF DenotedLegacy(w) # NoSchedule THEN DenotedLegacy(w)
                  ELSE DefaultSchedule

\* ------------------------------- the weekly job follows the configuration
\* POST /api/config in the web process, SIGUSR2 and the hourly check in
\* the scheduler process
MaxPosts == 3

StructOf(day, hour, minute) ==
    [t |-> "map", day_of_week |-> YStr(day), hour |-> YInt(hour), minute |-> YInt(minute)]

\* schedule_struct of a request: two valid ones, one of them with the day
\* in capitals, and one with an hour out of range
PostedStructs ==
    {StructOf(<<"m","o","n">>, 8, 0), StructOf(<<"F","R","I">>, 17, 30),
     StructOf(<<"f","r","i">>, 24, 0)}

\* data['reporting']['weekly_report'] of a request
WeeklyUpdates ==
    [schedule_struct : {YMissing} \cup PostedStructs,
     enabled : {YMissing, YBool(TRUE), YBool(FALSE)}]

\* scheduler.remove_job, then add_job with the trigger of the stored
\* schedule when the stored configuration has enabled true
reschedule_weekly_report(c) ==
    LET weekly == [t |-> "map", schedule_struct |-> c.schedule_struct,
                   schedule |-> YMissing]
    IN  IF ~c.enabled
        THEN [c EXCEPT !.job = FALSE, !.trigger = NoSchedule]
        ELSE [c EXCEPT !.job = TRUE,
                       !.trigger = get_weekly_schedule_from_config(weekly).schedule]

\* the scheduler process has started on a configuration file
InitReload ==
    /\ T_Assets = {}
    /\ T_Raw_Intel = <<>>
    /\ T_Validated_Threats = <<>>
    /\ config = [enabled |-> FALSE, critical |-> Missing]
    /\ now = 0
    /\ task_lock = FALSE
    /\ task_status = "idle"
    /\ pc = "idle"
    /\ df_new_intel = {}
    /\ validated_threats = <<>>
    /\ processed_intel_ids = <<>>
    /\ tx = NoTx
    /\ hist = NoHist
    /\ notification = DefaultNotification
    /\ tz = 0
    /\ outbox = NoDispatch
    /\ job_log = <<>>
    /\ probe = NoProbe
    /\ web = NoWeb
    /\ sched = NoSched
    /\ send = NoSend
    /\ \E e \in BOOLEAN, st \in {YMissing, StructOf(<<"m","o","n">>, 8, 0),
                                  StructOf(<<"f","r","i">>, 17, 30)} :
          cron = reschedule_weekly_report(
                     [NoCron EXCEPT !.enabled = e, !.schedule_struct = st])

ReloadFrame ==
    UNCHANGED <<T_Assets, T_Raw_Intel, T_Validated_Threats, config, now,
                task_lock, task_status, pc, df_new_intel, validated_threats,
                processed_intel_ids, tx, hist, notification, tz, outbox,
                job_log, probe, web, sched, send>>

\* the check of the fields of a posted schedule_struct
struct_ok(st) ==
    /\ Lower(YText(st.day_of_week)) \in VALID_DAYS
    /\ st.hour.t \in {"int", "bool"} /\ st.hour.n \in 0..23
    /\ st.minute.t \in {"int", "bool"} /\ st.minute.n \in 0..59

\* POST /api/config with a weekly_report part: enabled is stored only
\* beside a schedule_struct, and SIGUSR2 is sent only when the stored
\* schedule_struct has changed
update_config(weekly_updates) ==
    LET st == weekly_updates.schedule_struct
        stored == StructOf(Lower(YText(st.day_of_week)), st.hour.n, st.minute.n)
    IN  /\ cron.posts < MaxPosts
        /\ IF st.t = "missing"
           THEN cron' = [cron EXCEPT !.response = 200, !.posts = @ + 1]
           ELSE IF ~struct_ok(st)
           THEN cron' = [cron EXCEPT !.response = 400, !.posts = @ + 1]
           ELSE cron' = [cron EXCEPT
                           !.enabled = IF weekly_updates.enabled.t = "missing"
                                       THEN @ ELSE weekly_updates.enabled.n = 1,
                           !.schedule_struct = stored,
                           !.signal = @ \/ (cron.schedule_struct # stored),
                           !.response = 200,
                           !.posts = @ + 1]
        /\ ReloadFrame

\* SIGUSR2 is delivered to the scheduler process
signal_handler_reload ==
    /\ cron.signal
    /\ cron' = [reschedule_weekly_report(cron) EXCEPT !.signal = FALSE]
    /\ ReloadFrame

\* the check of the main loop, once an hour: a missing job is set up again
\* when the stored configuration has enabled true
hourly_check ==
    /\ ~cron.job
    /\ cron.enabled
    /\ cron' = reschedule_weekly_report(cron)
    /\ ReloadFrame

NextReload ==
    \/ \E weekly_updates \in WeeklyUpdates : update_config(weekly_updates)
    \/ signal_handler_reload
    \/ hourly_check

\* a pending signal is delivered and the main loop keeps running
SpecReload ==
    /\ InitReload
    /\ [][NextReload]_vars
    /\ WF_vars(signal_handler_reload)
    /\ WF_vars(hourly_check)

\* C39: a request that stores enabled false signals the scheduler, and
\* whenever the weekly job and the stored enabled flag differ, the
\* scheduler comes to hold the job exactly when the flag is true
C39_Original ==
    /\ [][(cron.enabled /\ ~cron'.enabled) => cron'.signal]_vars
    /\ (cron.job # cron.enabled) ~> (cron.job = cron.enabled)
====
